---- MODULE Spec2Model ----
(***************************************************************************)
(* CCNA tutor (Mudamir/AI_Model): four generation backends (gemini, qwen2, *)
(* phi3, llama), the retrieval-augmented personalized_tutor of the gemini  *)
(* and qwen2 modules, the analytics of the phi3 and llama tutor classes,   *)
(* and the FastAPI request handlers of fastapi_server.py.                  *)
(*                                                                         *)
(* Texts are sequences of tokens (a word, a punctuation mark, a whitespace *)
(* run or a fixed template fragment).  Python's `a in b` on strings is the *)
(* contiguous-subsequence test Contains, str.lower() maps every token      *)
(* through LowerTok, str.strip() removes whitespace tokens at both ends.   *)
(***************************************************************************)
EXTENDS Integers, Sequences, FiniteSets, TLC

\* ------------------------------------------------------------------ bounds
MaxCalls == 7
MaxShortCalls == 4
MaxGenCalls == 2
MaxSearchCalls == 1
MaxRequests == 3
MaxTopK == 4
MaxRespTime == 2
MaxTextLen == 2
MaxTopicCalls == 2
MaxRecords == 3
MaxThreads == 2

\* -------------------------------------------------------- program constants
GeminiWindow == 5
Qwen2Window == 2
DefaultTopK == 3
ContextCap == 400

\* -------------------------------------------------------------- text model
Min(a, b) == IF a < b THEN a ELSE b
Max(a, b) == IF a > b THEN a ELSE b

Whitespace == {" ", "\n", "\n\n"}

LowerTok(t) ==
  CASE t = "OSPF" -> "ospf"
    [] t = "Explain" -> "explain"
    [] t = "What" -> "what"
    [] t = "VLAN" -> "vlan"
    [] t = "Configure" -> "configure"
    [] t = "Show" -> "show"
    [] t = "ACL" -> "acl"
    [] t = "QoS" -> "qos"
    [] t = "Map" -> "map"
    [] t = "Redundancy" -> "redundancy"
    [] OTHER -> t

\* str.lower()
Lower(s) == [i \in 1..Len(s) |-> LowerTok(s[i])]

\* the pieces of a word that holds a shorter word inside it
PiecesOf(t) ==
  CASE t = "map" -> <<"m", "ap">>
    [] t = "switching" -> <<"switch", "ing">>
    [] OTHER -> <<t>>

RECURSIVE Pieces(_)
Pieces(s) == IF Len(s) = 0 THEN <<>> ELSE PiecesOf(s[1]) \o Pieces(Tail(s))

\* `kw in s` for strings: kw occurs in s as a contiguous run, inside a word
\* as well as across words
Contains(s, kw) ==
  LET p == Pieces(s)
  IN  \E i \in 0..(Len(p) - Len(kw)) : \A j \in 1..Len(kw) : p[i + j] = kw[j]

\* str.strip()
Strip(s) ==
  LET keep == {i \in 1..Len(s) : s[i] \notin Whitespace}
  IN  IF keep = {} THEN <<>>
      ELSE LET lo == CHOOSE i \in keep : \A j \in keep : i <= j
               hi == CHOOSE i \in keep : \A j \in keep : i >= j
           IN  SubSeq(s, lo, hi)

\* sep.join(parts)
RECURSIVE Join(_, _)
Join(sep, parts) ==
  IF Len(parts) = 0 THEN <<>>
  ELSE IF Len(parts) = 1 THEN parts[1]
  ELSE parts[1] \o sep \o Join(sep, Tail(parts))

\* Python list indexing lst[i]: 0-based, a negative i counts from the end
PyIndexOK(lst, i) == -Len(lst) <= i /\ i < Len(lst)
PyIndex(lst, i) == IF i < 0 THEN lst[Len(lst) + i + 1] ELSE lst[i + 1]

\* the slice taken from the wrong end, lst[:n]
FirstN(lst, n) == SubSeq(lst, 1, Min(n, Len(lst)))

\* Python slice lst[-n:]
LastN(lst, n) == SubSeq(lst, Max(1, Len(lst) - n + 1), Len(lst))

\* len() of a token in characters (spaces between word tokens not counted)
CharLen(t) ==
  CASE t = "<a 390-character scenario>" -> 390
    [] t = "<a 120-character scenario>" -> 120
    [] t \in {"Q:", "A:"} -> 3
    [] t = "\n" -> 1
    [] OTHER -> 10

\* Python slice s[:n] of a string: whole tokens while they fit in n
\* characters, and the cut piece of the next one, if any is left
RECURSIVE FirstChars(_, _)
FirstChars(s, n) ==
  IF Len(s) = 0 \/ n <= 0 THEN <<>>
  ELSE IF CharLen(s[1]) <= n
       THEN <<s[1]>> \o FirstChars(Tail(s), n - CharLen(s[1]))
       ELSE <<"<cut token>">>

\* ------------------------------------------------------------------ corpus
\* questions.json: a list of records; a record is a function on its keys
RecOSPF ==
  [question |-> <<"What", "is", "OSPF", "?">>,
   choices |-> << <<"A", "link-state", "protocol">>,
                  <<"A", "distance-vector", "protocol">> >>,
   correct_answer |-> 0]
RecVLAN ==
  [question |-> <<"<a 390-character scenario>", "vlan", "trunk", "?">>,
   choices |-> << <<"Access", "port">>, <<"802.1Q", "trunk">> >>,
   correct_answer |-> 1]
RecACL ==
  [question |-> <<"<a 120-character scenario>", "acl", "?">>,
   choices |-> << <<"permit">>, <<"deny">>, <<"implicit", "deny">> >>,
   correct_answer |-> 2]
RecNoAnswer ==
  [question |-> <<"What", "is", "STP", "?">>,
   choices |-> << <<"Spanning", "Tree">> >>]
RecNoChoices ==
  [question |-> <<"What", "is", "RIP", "?">>, correct_answer |-> 0]

Datasets ==
  { <<RecOSPF>>,
    <<RecOSPF, RecVLAN>>,
    <<RecVLAN, RecNoAnswer, RecOSPF>>,
    <<RecOSPF, RecNoChoices, RecVLAN, RecACL>>,
    <<RecACL, RecVLAN, RecOSPF>> }

DefaultDataset == <<RecOSPF, RecNoChoices, RecVLAN, RecACL>>

\* records the load has to cope with: a field missing, an index past the
\* choices, a negative index
RecNoQuestion ==
  [choices |-> << <<"yes">>, <<"no">> >>, correct_answer |-> 0]
RecBadIndex ==
  [question |-> <<"What", "is", "NAT", "?">>,
   choices |-> << <<"Address", "translation">>, <<"A", "routing", "protocol">> >>,
   correct_answer |-> 2]
RecNegIndex ==
  [question |-> <<"What", "is", "DNS", "?">>,
   choices |-> << <<"Name", "resolution">>, <<"A", "switching", "loop">> >>,
   correct_answer |-> -1]

LoadRecords ==
  {RecOSPF, RecVLAN, RecNoAnswer, RecNoChoices, RecNoQuestion, RecBadIndex,
   RecNegIndex}

\* the dataset files: every list of at most MaxRecords records, [] included
RECURSIVE FilesUpTo(_)
FilesUpTo(n) ==
  IF n = 0 THEN {<<>>}
  ELSE LET shorter == FilesUpTo(n - 1)
       IN  shorter \cup {Append(f, r) : f \in {x \in shorter : Len(x) = n - 1},
                                         r \in LoadRecords}

LoadFiles == FilesUpTo(MaxRecords)

\* a test that looks for the question only
CompleteQuestionOnly(item) == "question" \in DOMAIN item

\* if "question" in item and "choices" in item and "correct_answer" in item
Complete(item) ==
  /\ "question" \in DOMAIN item
  /\ "choices" \in DOMAIN item
  /\ "correct_answer" \in DOMAIN item

\* one pass of the body of `for item in data`: the two lists afterwards and
\* the exception that ends the import, if one is raised (item[key] raises
\* KeyError for a missing key, choices[i] IndexError outside the list);
\* the question is appended before the answer is looked up
LoadItemStep(item, qs, cts) ==
  IF ~Complete(item)
  THEN [exc |-> "none", questions |-> qs, correct_texts |-> cts]
  ELSE IF "question" \notin DOMAIN item
  THEN [exc |-> "KeyError", questions |-> qs, correct_texts |-> cts]
  ELSE IF "choices" \notin DOMAIN item \/ "correct_answer" \notin DOMAIN item
  THEN [exc |-> "KeyError", questions |-> Append(qs, item.question),
        correct_texts |-> cts]
  ELSE IF ~PyIndexOK(item.choices, item.correct_answer)
  THEN [exc |-> "IndexError", questions |-> Append(qs, item.question),
        correct_texts |-> cts]
  ELSE [exc |-> "none", questions |-> Append(qs, item.question),
        correct_texts |-> Append(cts, PyIndex(item.choices, item.correct_answer))]

\* prints that show the size of the corpus and touch no entry
PrintCount(qs, cts) ==
  [exc |-> "none", lines |-> << <<"Dataset loaded">>, <<"Questions:">> >>]

\* the three prints after the loop; questions[0] raises IndexError on an
\* empty list, before its line is printed
PrintFirst(qs, cts) ==
  IF Len(qs) = 0
  THEN [exc |-> "IndexError", lines |-> << <<"Dataset loaded">> >>]
  ELSE IF Len(cts) = 0
  THEN [exc |-> "IndexError",
        lines |-> << <<"Dataset loaded">>, <<"First Question:">> \o qs[1] >>]
  ELSE [exc |-> "none",
        lines |-> << <<"Dataset loaded">>, <<"First Question:">> \o qs[1],
                     <<"Correct Answer:">> \o cts[1] >>]

\* the load loop: questions and correct_texts are filled together
RECURSIVE LoadQuestions(_)
LoadQuestions(recs) ==
  IF Len(recs) = 0 THEN <<>>
  ELSE IF Complete(recs[1])
       THEN <<recs[1].question>> \o LoadQuestions(Tail(recs))
       ELSE LoadQuestions(Tail(recs))

RECURSIVE LoadCorrectTexts(_)
LoadCorrectTexts(recs) ==
  IF Len(recs) = 0 THEN <<>>
  ELSE IF Complete(recs[1])
       THEN <<PyIndex(recs[1].choices, recs[1].correct_answer)>>
              \o LoadCorrectTexts(Tail(recs))
       ELSE LoadCorrectTexts(Tail(recs))

\* the load raises nothing: every complete record indexes inside its choices
\* and questions[0] exists
LoadsCleanly(recs) ==
  /\ \A i \in 1..Len(recs) :
       Complete(recs[i]) => PyIndexOK(recs[i].choices, recs[i].correct_answer)
  /\ \E i \in 1..Len(recs) : Complete(recs[i])

\* the module-level code run to its end over the records recs
Booted(recs) ==
  [stage |-> "ready", pos |-> Len(recs), exc |-> "none",
   stdout |-> PrintFirst(LoadQuestions(recs), LoadCorrectTexts(recs)).lines
                \o << <<"Using device:">> >>]

\* --------------------------------------------------------- similarity index
\* embedding_model.encode + IndexFlatL2: the squared L2 distance of two
\* bag-of-token vectors is the size of the symmetric difference
TokSet(s) == {LowerTok(s[i]) : i \in 1..Len(s)}
Distance(a, b) ==
  Cardinality((TokSet(a) \ TokSet(b)) \cup (TokSet(b) \ TokSet(a)))

\* positions 0..n-1 of the corpus, nearest first, equal distances by position
RECURSIVE Ranked(_, _, _)
Ranked(qs, query, left) ==
  IF left = {} THEN <<>>
  ELSE LET best == CHOOSE i \in left : \A j \in left :
                     \/ Distance(query, qs[i + 1]) < Distance(query, qs[j + 1])
                     \/ /\ Distance(query, qs[i + 1]) = Distance(query, qs[j + 1])
                        /\ i <= j
       IN  <<best>> \o Ranked(qs, query, left \ {best})

\* index.search(query_vec, k): the row I[0], k labels; the slots the index
\* cannot fill hold -1
Search(qs, query, k) ==
  LET r == Ranked(qs, query, 0..(Len(qs) - 1))
  IN  [s \in 1..k |-> IF s <= Len(r) THEN r[s] ELSE -1]

\* one "Q: ...\nA: ..." block
QABlock(q, a) == <<"Q:">> \o q \o <<"\n", "A:">> \o a

\* the filter written 0 < i < len(questions): position 0 is dropped
RECURSIVE ContextBlocksSkipFirst(_, _, _)
ContextBlocksSkipFirst(qs, cts, I) ==
  IF Len(I) = 0 THEN <<>>
  ELSE IF 0 < I[1] /\ I[1] < Len(qs)
       THEN <<QABlock(PyIndex(qs, I[1]), PyIndex(cts, I[1]))>>
              \o ContextBlocksSkipFirst(qs, cts, Tail(I))
       ELSE ContextBlocksSkipFirst(qs, cts, Tail(I))

\* the list comprehension over I[0] with its filter i < len(questions)
RECURSIVE ContextBlocks(_, _, _)
ContextBlocks(qs, cts, I) ==
  IF Len(I) = 0 THEN <<>>
  ELSE IF I[1] < Len(qs)
       THEN <<QABlock(PyIndex(qs, I[1]), PyIndex(cts, I[1]))>>
              \o ContextBlocks(qs, cts, Tail(I))
       ELSE ContextBlocks(qs, cts, Tail(I))

Context(qs, cts, query, k) ==
  Join(<<"\n">>, ContextBlocks(qs, cts, Search(qs, query, k)))

\* ------------------------------------------------------ conversation memory
\* the slices conversation_history[-5:] and conversation_history[-2:]
GeminiMemoryRead(history) == LastN(history, GeminiWindow)
Qwen2MemoryRead(history) == LastN(history, Qwen2Window)

GeminiHistoryText(history) ==
  IF Len(history) = 0 THEN <<>>
  ELSE <<"\n", "Previous tutor interactions:", "\n">>
         \o Join(<<"\n">>, GeminiMemoryRead(history))

Qwen2HistoryText(history) ==
  IF Len(history) = 0 THEN <<>>
  ELSE <<"\n", "Previous:", "\n">> \o Join(<<"\n">>, Qwen2MemoryRead(history))

\* the entry appended after generation
MemoryEntry(query, response_text) == QABlock(query, response_text)

\* a memory that keeps only what the window can still read
RememberWindowed(history, query, response_text) ==
  LastN(Append(history, MemoryEntry(query, response_text)), GeminiWindow)

\* a memory that keeps model answers only and drops the error strings
RememberAnswersOnly(history, query, response_text) ==
  IF Len(response_text) > 0 /\ response_text[1] \in {"[Error]", "[Error"}
  THEN history
  ELSE Append(history, MemoryEntry(query, response_text))

\* a memory whose newest entry takes the place of the one before it
RememberOverLast(history, query, response_text) ==
  IF Len(history) = 0 THEN <<MemoryEntry(query, response_text)>>
  ELSE [history EXCEPT ![Len(history)] = MemoryEntry(query, response_text)]

\* conversation_history.append(f"Q: {query}\nA: {response_text}")
Remember(history, query, response_text) ==
  Append(history, MemoryEntry(query, response_text))

\* ------------------------------------------------------------------ prompts
\* a template that trims the request before it puts it in
GeminiPromptStripped(context, history_text, query) ==
  <<"\n", "You are an expert Cisco network engineer ...", "Context/reference:", "\n">>
    \o context \o <<"\n\n">> \o history_text
    \o <<"\n\n", "Configuration request:">> \o Strip(query)
    \o <<"\n\n", "Provide clear CLI commands with syntax and verification steps.", "\n">>

GeminiPrompt(context, history_text, query) ==
  <<"\n", "You are an expert Cisco network engineer ...", "Context/reference:", "\n">>
    \o context \o <<"\n\n">> \o history_text
    \o <<"\n\n", "Configuration request:">> \o query
    \o <<"\n\n", "Provide clear CLI commands with syntax and verification steps.", "\n">>

\* a template that takes the whole context
Qwen2PromptUncapped(context, query) ==
  <<"You are a CCNA exam practice coach. ...", "\n\n", "Context:">>
    \o context
    \o <<"\n\n", "Question:">> \o query \o <<"\n\n", "Quick answer:">>

Qwen2Prompt(context, query) ==
  <<"You are a CCNA exam practice coach. ...", "\n\n", "Context:">>
    \o FirstChars(context, ContextCap)
    \o <<"\n\n", "Question:">> \o query \o <<"\n\n", "Quick answer:">>

\* ------------------------------------------------------- function results
\* what a call hands its caller: a text, or an exception that escapes
Text(v) == [kind |-> "text", value |-> v]
Raised(cls) == [kind |-> "raised", exc |-> cls]

\* the exception classes the underlying calls raise, and `except base:`
ExceptionClasses ==
  {"ConnectionError", "ConnectTimeout", "Timeout", "TooManyRedirects",
   "JSONDecodeError", "AttributeError", "KeyError", "ValueError",
   "ResponseError", "ServiceUnavailable"}

\* handlers that match the named class only, never its subclasses
IsExactly(cls, base) == cls = base

IsA(cls, base) ==
  CASE base = "Exception" -> cls \in ExceptionClasses
    [] base = "ConnectionError" -> cls \in {"ConnectionError", "ConnectTimeout"}
    [] base = "Timeout" -> cls \in {"Timeout", "ConnectTimeout"}
    [] OTHER -> cls = base

\* str(e)
ExcMessage(cls) ==
  CASE cls = "ValueError" -> <<"response.text", "requires", "a", "valid", "Part">>
    [] cls = "ServiceUnavailable" -> <<"503", "failed", "to", "connect">>
    [] cls = "AttributeError" -> <<"object", "has", "no", "attribute">>
    [] cls = "JSONDecodeError" -> <<"Expecting", "value">>
    [] cls = "KeyError" -> <<"'message'">>
    [] cls = "TooManyRedirects" -> <<>>
    [] OTHER -> <<cls>>

\* ----------------------------------------------------------- gemini backend
\* model.generate_content(prompt) raises, or returns a response whose .text
\* is a text or raises ValueError (no valid part)
GeminiTry(out) ==
  IF out.kind = "raise" THEN Raised(out.exc)
  ELSE IF ~out.has_text THEN Raised("ValueError")
  ELSE Text(Strip(out.text))

GeminiGenerateAnswer(prompt, out) ==
  LET r == GeminiTry(out)
  IN  IF r.kind = "raised" /\ IsA(r.exc, "Exception")
      THEN Text(<<"[Error", "from", "Gemini", "API]">> \o ExcMessage(r.exc))
      ELSE r

\* ------------------------------------------------------------ qwen2 backend
StatusText(code) ==
  CASE code = 404 -> "404" [] code = 500 -> "500" [] OTHER -> "200"

\* requests.post(...) raises, or returns a response with a status code and
\* a body: not JSON, a JSON list, or a JSON object whose "response" member
\* is a string, null or absent
Qwen2Try(out) ==
  IF out.kind = "raise" THEN Raised(out.exc)
  ELSE IF out.status = 200
       THEN IF out.body = "notjson" THEN Raised("JSONDecodeError")
            ELSE IF out.body = "list" THEN Raised("AttributeError")
            ELSE IF out.response = "null" THEN Raised("AttributeError")
            ELSE IF out.response = "absent" THEN Text(Strip(<<>>))
            ELSE Text(Strip(out.text))
       ELSE Text(<<"[Error]", "Ollama returned status", StatusText(out.status),
                   ".", "Is Ollama running?">>)

Qwen2GenerateAnswer(prompt, out) ==
  LET r == Qwen2Try(out)
  IN  IF r.kind = "raised" /\ IsA(r.exc, "ConnectionError")
      THEN Text(<<"[Error]", "Cannot connect to Ollama.",
                  "Please start Ollama service.">>)
      ELSE IF r.kind = "raised" /\ IsA(r.exc, "Timeout")
      THEN Text(<<"[Error]", "Request timed out.", "Try again.">>)
      ELSE IF r.kind = "raised" /\ IsA(r.exc, "Exception")
      THEN Text(<<"[Error]">> \o ExcMessage(r.exc))
      ELSE r

\* ------------------------------------------------- phi3 and llama tutors
\* the `topics` dict of _extract_topic, in declaration order
Phi3Topics ==
  << [topic |-> "routing",
      keywords |-> << <<"ospf">>, <<"eigrp">>, <<"rip">>, <<"bgp">>, <<"route">>,
                      <<"routing">> >>],
     [topic |-> "switching",
      keywords |-> << <<"vlan">>, <<"stp">>, <<"switch">>, <<"trunk">>,
                      <<"etherchannel">> >>],
     [topic |-> "security",
      keywords |-> << <<"acl">>, <<"security">>, <<"firewall">>, <<"vpn">>,
                      <<"802.1x">> >>],
     [topic |-> "wireless",
      keywords |-> << <<"wifi">>, <<"wireless">>, <<"wlan">>, <<"ap">>,
                      <<"controller">> >>],
     [topic |-> "troubleshooting",
      keywords |-> << <<"troubleshoot">>, <<"debug">>, <<"problem">>, <<"issue">>,
                      <<"fix">> >>],
     [topic |-> "subnetting",
      keywords |-> << <<"subnet">>, <<"vlsm">>, <<"cidr">>, <<"ip", "address">>,
                      <<"network">> >>],
     [topic |-> "protocols",
      keywords |-> << <<"tcp">>, <<"udp">>, <<"http">>, <<"dns">>, <<"dhcp">>,
                      <<"snmp">> >>] >>

LlamaTopics ==
  << [topic |-> "routing",
      keywords |-> << <<"ospf">>, <<"eigrp">>, <<"rip">>, <<"bgp">>, <<"route">>,
                      <<"routing">>, <<"static", "route">>,
                      <<"dynamic", "routing">> >>],
     [topic |-> "switching",
      keywords |-> << <<"vlan">>, <<"stp">>, <<"switch">>, <<"trunk">>,
                      <<"etherchannel">>, <<"port-channel">>,
                      <<"spanning-tree">> >>],
     [topic |-> "security",
      keywords |-> << <<"acl">>, <<"security">>, <<"firewall">>, <<"vpn">>,
                      <<"802.1x">>, <<"authentication">>, <<"authorization">> >>],
     [topic |-> "wireless",
      keywords |-> << <<"wifi">>, <<"wireless">>, <<"wlan">>, <<"ap">>,
                      <<"controller">>, <<"802.11">>, <<"ssid">> >>],
     [topic |-> "troubleshooting",
      keywords |-> << <<"troubleshoot">>, <<"debug">>, <<"problem">>, <<"issue">>,
                      <<"fix">>, <<"diagnose">> >>],
     [topic |-> "subnetting",
      keywords |-> << <<"subnet">>, <<"vlsm">>, <<"cidr">>, <<"ip", "address">>,
                      <<"network">>, <<"supernet">> >>],
     [topic |-> "protocols",
      keywords |-> << <<"tcp">>, <<"udp">>, <<"http">>, <<"dns">>, <<"dhcp">>,
                      <<"snmp">>, <<"ntp">>, <<"syslog">> >>],
     [topic |-> "wan",
      keywords |-> << <<"wan">>, <<"frame", "relay">>, <<"ppp">>, <<"hdlc">>,
                      <<"serial">>, <<"leased", "line">> >>],
     [topic |-> "ipv6",
      keywords |-> << <<"ipv6">>, <<"ipng">>, <<"dual", "stack">>, <<"tunneling">>,
                      <<"migration">> >>],
     [topic |-> "qos",
      keywords |-> << <<"qos">>, <<"quality", "of", "service">>,
                      <<"traffic", "shaping">>, <<"policing">>, <<"marking">> >>] >>

\* any(keyword in text for keyword in keywords)
AnyIn(keywords, text) ==
  \E i \in 1..Len(keywords) : Contains(text, keywords[i])

\* a loop without the closing `return 'general'`: an unmatched text falls out
\* of the function with no tag
FirstTopicOrNone(topics, query_lower) ==
  LET m == {i \in 1..Len(topics) : AnyIn(topics[i].keywords, query_lower)}
  IN  IF m = {} THEN "None"
      ELSE topics[CHOOSE i \in m : \A j \in m : i <= j].topic

\* a loop that keeps the last topic with a keyword
LastTopic(topics, query_lower) ==
  LET m == {i \in 1..Len(topics) : AnyIn(topics[i].keywords, query_lower)}
  IN  IF m = {} THEN "general"
      ELSE topics[CHOOSE i \in m : \A j \in m : i >= j].topic

\* the for loop over topics.items(): the first topic with a keyword wins
RECURSIVE FirstTopic(_, _)
FirstTopic(topics, query_lower) ==
  IF Len(topics) = 0 THEN "general"
  ELSE IF AnyIn(topics[1].keywords, query_lower) THEN topics[1].topic
  ELSE FirstTopic(Tail(topics), query_lower)

Phi3ExtractTopic(query) == FirstTopic(Phi3Topics, Lower(query))
LlamaExtractTopic(query) == FirstTopic(LlamaTopics, Lower(query))

ComplexIndicators ==
  << <<"design">>, <<"architect">>, <<"implement">>, <<"troubleshoot">>,
     <<"optimize">>, <<"compare">>, <<"analyze">>, <<"evaluate">>,
     <<"integrate">>, <<"configure">> >>
AdvancedTerms ==
  << <<"enterprise">>, <<"scalability">>, <<"redundancy">>, <<"convergence">>,
     <<"interoperability">>, <<"automation">>, <<"programmability">> >>

\* the two tests in the other order: an indicator is looked for first
AssessComplexityIndicatorsFirst(query) ==
  IF AnyIn(ComplexIndicators, Lower(query)) THEN "intermediate"
  ELSE IF AnyIn(AdvancedTerms, Lower(query)) THEN "advanced"
  ELSE "basic"

\* _assess_complexity
AssessComplexity(query) ==
  IF AnyIn(AdvancedTerms, Lower(query)) THEN "advanced"
  ELSE IF AnyIn(ComplexIndicators, Lower(query)) THEN "intermediate"
  ELSE "basic"

\* the tutor objects after __init__
Phi3Init ==
  [model |-> "phi3:mini",
   conversation_history |-> <<>>,
   experience_level |-> "beginner",
   questions_answered |-> 0,
   total_response_time |-> 0,
   topic_performance |-> <<>>]
LlamaInit ==
  [model |-> "llama3.1:8b",
   conversation_history |-> <<>>,
   experience_level |-> "intermediate",
   questions_answered |-> 0,
   total_response_time |-> 0,
   topic_performance |-> <<>>]

\* _update_learning_analytics of the phi3 tutor
Phi3UpdateLearningAnalytics(self, query, response_time) ==
  LET topic == Phi3ExtractTopic(query)
      tp == self.topic_performance
      entry == IF topic \in DOMAIN tp THEN tp[topic]
               ELSE [questions_asked |-> 0, avg_response_time |-> 0,
                     complexity_level |-> "basic"]
      bumped == [entry EXCEPT !.questions_asked = @ + 1]
  IN  [self EXCEPT
         !.topic_performance =
            [t \in DOMAIN tp \cup {topic} |-> IF t = topic THEN bumped ELSE tp[t]],
         !.total_response_time = @ + response_time]

\* _update_learning_analytics of the llama tutor; t is time.time()
LlamaUpdateLearningAnalytics(self, query, response_time, t) ==
  LET topic == LlamaExtractTopic(query)
      complexity == AssessComplexity(query)
      tp == self.topic_performance
      entry == IF topic \in DOMAIN tp THEN tp[topic]
               ELSE [questions_asked |-> 0, avg_response_time |-> 0,
                     complexity_level |-> "basic", last_accessed |-> t]
      bumped == [entry EXCEPT !.questions_asked = @ + 1,
                              !.complexity_level = complexity,
                              !.last_accessed = t]
  IN  [self EXCEPT
         !.topic_performance =
            [x \in DOMAIN tp \cup {topic} |-> IF x = topic THEN bumped ELSE tp[x]],
         !.total_response_time = @ + response_time]

\* a system prompt that picks its tier from the analytics: a student who
\* has asked about some topic is no longer addressed as a newcomer
SystemPromptByStats(self) ==
  <<"You are a highly knowledgeable and conversational AI assistant ...",
    IF DOMAIN self.topic_performance = {}
      THEN "When helping newcomers to networking, you naturally: ..."
      ELSE "For experienced network professionals, you: ...",
    "Your approach to helping people: ...">>

\* _build_expert_system_prompt / _build_comprehensive_system_prompt
SystemPrompt(self) ==
  <<"You are a highly knowledgeable and conversational AI assistant ...",
    IF self.experience_level = "beginner"
      THEN "When helping newcomers to networking, you naturally: ..."
    ELSE IF self.experience_level = "intermediate"
      THEN "With people who have some networking background, you: ..."
    ELSE "For experienced network professionals, you: ...",
    "Your approach to helping people: ...">>

\* _build_enhanced_prompt
Phi3BuildEnhancedPrompt(query) ==
  <<"Here's a networking question I'd like your help with:", "\n\n">>
    \o query
    \o <<"\n\n", "I'm looking for a thoughtful explanation ...">>

\* _build_detailed_prompt
LlamaBuildDetailedPrompt(query) ==
  <<"I'd like a comprehensive explanation of this networking topic:", "\n\n">>
    \o query
    \o <<"\n\n", "I'm looking for a thorough understanding ...", "\n\n",
         "If there are related concepts or common misconceptions ...">>

\* the sentences the enhancers append; none of them holds a word a later
\* test of the same enhancer looks for
VerifyTip == <<"\n\n", "By the way, don't forget to verify your configuration ...">>
LayersTip == <<"\n\n", "When troubleshooting, I find it helpful to work systematically ...">>
LlamaVerifyTip == <<"\n\n", "Just to round this out - once you've got the configuration in place ...">>
LlamaLayersTip == <<"\n\n", "For troubleshooting, I find it really helps to work systematically ...">>
LlamaSecurityTip == <<"\n\n", "From a security perspective, ... principle of least privilege ...">>

\* _enhance_response
Phi3EnhanceResponse(answer, query) ==
  LET q == Lower(query)
      a0 == Strip(answer)
      a1 == IF /\ (Contains(q, <<"configure">>) \/ Contains(q, <<"configuration">>))
               /\ ~Contains(Lower(a0), <<"verify">>)
               /\ ~Contains(Lower(a0), <<"show">>)
            THEN a0 \o VerifyTip ELSE a0
      a2 == IF /\ (Contains(q, <<"troubleshoot">>) \/ Contains(q, <<"problem">>))
               /\ ~Contains(Lower(a1), <<"approach">>)
               /\ ~Contains(Lower(a1), <<"method">>)
            THEN a1 \o LayersTip ELSE a1
  IN  a2

\* _enhance_comprehensive_response
LlamaEnhanceResponse(answer, query) ==
  LET q == Lower(query)
      a0 == Strip(answer)
      a1 == IF /\ (Contains(q, <<"configure">>) \/ Contains(q, <<"configuration">>))
               /\ ~Contains(Lower(a0), <<"verify">>)
               /\ ~Contains(Lower(a0), <<"show">>)
            THEN a0 \o LlamaVerifyTip ELSE a0
      a2 == IF /\ (Contains(q, <<"troubleshoot">>) \/ Contains(q, <<"problem">>))
               /\ ~Contains(Lower(a1), <<"approach">>)
               /\ ~Contains(Lower(a1), <<"method">>)
            THEN a1 \o LlamaLayersTip ELSE a1
      a3 == IF /\ (Contains(q, <<"security">>) \/ Contains(q, <<"acl">>))
               /\ ~Contains(Lower(a2), <<"best", "practice">>)
            THEN a2 \o LlamaSecurityTip ELSE a2
  IN  a3

\* the string of the except branch of ask_question
Apology(self) ==
  <<"I apologize, but I encountered an issue.",
    "Please ensure Ollama is running with the", self.model, "model loaded.">>

\* ollama.chat(...) raises, or returns a mapping; response['message']['content']
\* raises KeyError when a key is missing, and a null content has no strip()
OllamaTry(out) ==
  IF out.kind = "raise" THEN Raised(out.exc)
  ELSE IF out.content = "absent" THEN Raised("KeyError")
  ELSE IF out.content = "null" THEN Raised("AttributeError")
  ELSE Text(out.text)

\* an ask_question that updates the analytics in its except branch too
Phi3AskQuestionCountingFailures(self, query, out, dt, t) ==
  LET r == OllamaTry(out)
  IN  [ret |-> IF r.kind = "raised" THEN Text(Apology(self))
               ELSE Text(Phi3EnhanceResponse(r.value, query)),
       self |-> Phi3UpdateLearningAnalytics(self, query, dt)]

\* ask_question: [ret, self] - what it returns and the tutor afterwards;
\* dt is the time the call took and t the clock when it ended
Phi3AskQuestion(self, query, out, dt, t) ==
  LET r == OllamaTry(out)
  IN  IF r.kind = "raised"
      THEN IF IsA(r.exc, "Exception")
           THEN [ret |-> Text(Apology(self)), self |-> self]
           ELSE [ret |-> r, self |-> self]
      ELSE [ret |-> Text(Phi3EnhanceResponse(r.value, query)),
            self |-> Phi3UpdateLearningAnalytics(self, query, dt)]

LlamaAskQuestion(self, query, out, dt, t) ==
  LET r == OllamaTry(out)
  IN  IF r.kind = "raised"
      THEN IF IsA(r.exc, "Exception")
           THEN [ret |-> Text(Apology(self)), self |-> self]
           ELSE [ret |-> r, self |-> self]
      ELSE [ret |-> Text(LlamaEnhanceResponse(r.value, query)),
            self |-> LlamaUpdateLearningAnalytics(self, query, dt, t)]

\* ------------------------------------------------------------------- state
VARIABLES
  script,          \* the process: one module's __main__ loop, bare calls, or the server
  calls,           \* calls or requests handled so far
  now,             \* time.time()
  data,            \* json.load(f): the records of the dataset file
  boot,            \* how far the module-level code of gemini / qwen2 has run
  questions,       \* the corpus lists of the gemini and qwen2 modules
  correct_texts,
  g_history,       \* AI_model_gemini.conversation_history
  q_history,       \* AI_model_qwen2.conversation_history
  phi3,            \* the Phi3CCNATutor object
  llama,           \* the LlamaCCNATutor object
  locals,          \* the locals of the last personalized_tutor call
  call,            \* the last call of an underlying model and its outcome
  ret,             \* what the last backend operation returned
  phi3_tutor,      \* fastapi_server globals: TRUE for an object, FALSE for None
  llama_tutor,
  gemini_tutor,
  qwen2_tutor,
  current_tutor,   \* "phi3", "llama" or "None"
  current_model,
  req,             \* the last HTTP request
  resp,            \* the body of the last HTTP response
  threads          \* the calls in progress in the worker threads: where each
                   \* one stands and its local variables

corpus_vars == <<data, boot, questions, correct_texts>>
backend_vars == <<g_history, q_history, phi3, llama, now, locals, call, ret>>
server_vars == <<phi3_tutor, llama_tutor, gemini_tutor, qwen2_tutor,
                 current_tutor, current_model, req, resp>>
vars == <<script, calls, corpus_vars, backend_vars, server_vars, threads>>

\* ------------------------------------------------------------------ inputs
QueryOSPF == <<"Explain", "OSPF">>
QueryVLAN == <<"Configure", "a", "VLAN", "trunk", "problem">>
QueryACL == <<"What", "is", "an", "ACL", "?">>
QueryHello == <<"hello">>
Queries == {QueryOSPF, QueryVLAN}
SearchQueries == {QueryOSPF, QueryVLAN, QueryACL, QueryHello}

AnswerOSPF == <<" ", "OSPF", "is", "a", "link-state", "protocol", "\n">>
AnswerShow == <<"Show", "vlan", "brief", "is", "the", "method">>
Answers == {AnswerOSPF, AnswerShow}

RaiseOut(cls) == [kind |-> "raise", exc |-> cls]

GeminiOk(a) == [kind |-> "response", has_text |-> TRUE, text |-> a]
GeminiOutcomes ==
  {GeminiOk(a) : a \in Answers}
    \cup {[kind |-> "response", has_text |-> FALSE, text |-> <<>>]}
    \cup {RaiseOut(c) : c \in {"ConnectionError", "Timeout", "ServiceUnavailable"}}

Qwen2Reply(status, body, response, a) ==
  [kind |-> "response", status |-> status, body |-> body,
   response |-> response, text |-> a]
Qwen2Ok(a) == Qwen2Reply(200, "dict", "str", a)
Qwen2Outcomes ==
  {Qwen2Ok(a) : a \in Answers \cup {<<" ">>}}
    \cup {Qwen2Reply(200, b, "absent", <<>>) : b \in {"notjson", "list", "dict"}}
    \cup {Qwen2Reply(200, "dict", "null", <<>>)}
    \cup {Qwen2Reply(c, "notjson", "absent", <<>>) : c \in {404, 500}}
    \cup {RaiseOut(c) : c \in {"ConnectionError", "ConnectTimeout", "Timeout",
                               "TooManyRedirects"}}

OllamaOk(a) == [kind |-> "response", content |-> "str", text |-> a]
OllamaOutcomes ==
  {OllamaOk(a) : a \in Answers}
    \cup {[kind |-> "response", content |-> c, text |-> <<>>] : c \in {"absent", "null"}}
    \cup {RaiseOut(c) : c \in {"ConnectionError", "ResponseError"}}

\* the outcomes of the long runs: an answer or a connection failure
GeminiFew == {GeminiOk(AnswerOSPF), RaiseOut("ConnectionError")}
Qwen2Few == {Qwen2Ok(AnswerOSPF), RaiseOut("ConnectionError")}
OllamaFew == {OllamaOk(AnswerOSPF), RaiseOut("ConnectionError")}

\* the outcomes of the runs that gather statistics: an answer, a failure of
\* the call, a reply without content
OllamaStats ==
  {OllamaOk(AnswerOSPF), RaiseOut("ConnectionError"),
   [kind |-> "response", content |-> "absent", text |-> <<>>]}

\* how long a call of a local model takes
RespTimes == {1, MaxRespTime}
\* the requests the server is driven with
ServerMessages == {QueryVLAN}
ServerRespTimes == {MaxRespTime}

NoLocals == [backend |-> "none"]
NoCall == [backend |-> "none"]
NoRet == [kind |-> "none"]
NoReq == [op |-> "none"]
NoResp == [status |-> "none"]
\* the worker threads, none of them in a call
Threads == 1..MaxThreads
NoThreads == [t \in Threads |-> [pc |-> "idle"]]

\* ------------------------------------------------- backend operations
\* generate_answer of AI_model_gemini, called with a prompt
GeminiGenerate(prompt, out) ==
  /\ call' = [backend |-> "gemini", input |-> prompt, out |-> out]
  /\ ret' = GeminiGenerateAnswer(prompt, out)

\* generate_answer of AI_model_qwen2
Qwen2Generate(prompt, out) ==
  /\ call' = [backend |-> "qwen2", input |-> prompt, out |-> out]
  /\ ret' = Qwen2GenerateAnswer(prompt, out)

\* personalized_tutor of AI_model_gemini
GeminiPersonalizedTutor(query, top_k, out) ==
  LET I == Search(questions, query, top_k)
      context == Join(<<"\n">>, ContextBlocks(questions, correct_texts, I))
      history_text == GeminiHistoryText(g_history)
      prompt == GeminiPrompt(context, history_text, query)
  IN  /\ GeminiGenerate(prompt, out)
      /\ locals' = [backend |-> "gemini", query |-> query, top_k |-> top_k,
                    I |-> I, context |-> context,
                    memory_read |-> IF Len(g_history) = 0 THEN <<>>
                                    ELSE GeminiMemoryRead(g_history),
                    history_text |-> history_text, prompt |-> prompt]
      /\ g_history' = IF ret'.kind = "text"
                      THEN Remember(g_history, query, ret'.value)
                      ELSE g_history
      /\ UNCHANGED <<q_history, phi3, llama, now>>

\* personalized_tutor of AI_model_qwen2 (mode is accepted and never read)
Qwen2PersonalizedTutor(query, top_k, out) ==
  LET I == Search(questions, query, top_k)
      context == Join(<<"\n">>, ContextBlocks(questions, correct_texts, I))
      history_text == Qwen2HistoryText(q_history)
      prompt == Qwen2Prompt(context, query)
  IN  /\ Qwen2Generate(prompt, out)
      /\ locals' = [backend |-> "qwen2", query |-> query, top_k |-> top_k,
                    I |-> I, context |-> context,
                    memory_read |-> IF Len(q_history) = 0 THEN <<>>
                                    ELSE Qwen2MemoryRead(q_history),
                    history_text |-> history_text, prompt |-> prompt]
      /\ q_history' = IF ret'.kind = "text"
                      THEN Remember(q_history, query, ret'.value)
                      ELSE q_history
      /\ UNCHANGED <<g_history, phi3, llama, now>>

\* Phi3CCNATutor.ask_question
Phi3Ask(query, out, dt) ==
  LET r == Phi3AskQuestion(phi3, query, out, dt, now + dt)
  IN  /\ call' = [backend |-> "phi3",
                  input |-> SystemPrompt(phi3) \o Phi3BuildEnhancedPrompt(query),
                  out |-> out]
      /\ ret' = r.ret
      /\ phi3' = r.self
      /\ now' = now + dt
      /\ UNCHANGED <<g_history, q_history, llama, locals>>

\* LlamaCCNATutor.ask_question
LlamaAsk(query, out, dt) ==
  LET r == LlamaAskQuestion(llama, query, out, dt, now + dt)
  IN  /\ call' = [backend |-> "llama",
                  input |-> SystemPrompt(llama) \o LlamaBuildDetailedPrompt(query),
                  out |-> out]
      /\ ret' = r.ret
      /\ llama' = r.self
      /\ now' = now + dt
      /\ UNCHANGED <<g_history, q_history, phi3, locals>>

\* --------------------------------------------------------- initial states
\* the modules after import over the records `recs` of the dataset file
Loaded(recs) ==
  /\ LoadsCleanly(recs)
  /\ data = recs
  /\ boot = Booted(recs)
  /\ questions = LoadQuestions(recs)
  /\ correct_texts = LoadCorrectTexts(recs)
  /\ g_history = <<>>
  /\ q_history = <<>>
  /\ phi3 = Phi3Init
  /\ llama = LlamaInit
  /\ now = 0
  /\ calls = 0
  /\ locals = NoLocals
  /\ call = NoCall
  /\ ret = NoRet

\* fastapi_server after import, every backend imported
ServerIdle ==
  /\ phi3_tutor = TRUE
  /\ llama_tutor = TRUE
  /\ gemini_tutor = TRUE
  /\ qwen2_tutor = TRUE
  /\ current_tutor = "phi3"
  /\ current_model = "phi3"
  /\ req = NoReq
  /\ resp = NoResp
  /\ threads = NoThreads

\* ------------------------------------------- bare calls of the backends
InitGen == script = "gen" /\ Loaded(DefaultDataset) /\ ServerIdle

GenGemini ==
  \E q \in Queries, out \in GeminiOutcomes :
    /\ GeminiGenerate(q, out)
    /\ UNCHANGED <<g_history, q_history, phi3, llama, now, locals>>
GenQwen2 ==
  \E q \in Queries, out \in Qwen2Outcomes :
    /\ Qwen2Generate(q, out)
    /\ UNCHANGED <<g_history, q_history, phi3, llama, now, locals>>
GenPhi3 == \E q \in Queries, out \in OllamaOutcomes, dt \in RespTimes : Phi3Ask(q, out, dt)
GenLlama == \E q \in Queries, out \in OllamaOutcomes, dt \in RespTimes : LlamaAsk(q, out, dt)

NextGen ==
  /\ calls < MaxGenCalls
  /\ calls' = calls + 1
  /\ (GenGemini \/ GenQwen2 \/ GenPhi3 \/ GenLlama)
  /\ UNCHANGED <<script, corpus_vars, server_vars, threads>>

SpecGen == InitGen /\ [][NextGen]_vars

\* ------------------------------------------ the modules' __main__ loops
InitTutor ==
  /\ script \in {"gemini", "qwen2", "phi3", "llama"}
  /\ Loaded(DefaultDataset)
  /\ ServerIdle

LoopGemini ==
  /\ script = "gemini"
  /\ \E q \in Queries, out \in GeminiFew : GeminiPersonalizedTutor(q, DefaultTopK, out)
LoopQwen2 ==
  /\ script = "qwen2"
  /\ \E q \in Queries, out \in Qwen2Few : Qwen2PersonalizedTutor(q, DefaultTopK, out)
LoopPhi3 ==
  /\ script = "phi3"
  /\ \E q \in Queries, out \in OllamaFew, dt \in RespTimes : Phi3Ask(q, out, dt)
LoopLlama ==
  /\ script = "llama"
  /\ \E q \in Queries, out \in OllamaFew, dt \in RespTimes : LlamaAsk(q, out, dt)

\* the gemini loop runs long enough to outgrow its window of five
CallLimit == IF script = "gemini" THEN MaxCalls ELSE MaxShortCalls

NextTutor ==
  /\ calls < CallLimit
  /\ calls' = calls + 1
  /\ (LoopGemini \/ LoopQwen2 \/ LoopPhi3 \/ LoopLlama)
  /\ UNCHANGED <<script, corpus_vars, server_vars, threads>>

SpecTutor == InitTutor /\ [][NextTutor]_vars

\* ------------------------------------- retrieval over several corpora
InitSearch ==
  /\ script \in {"gemini", "qwen2"}
  /\ \E recs \in Datasets : Loaded(recs)
  /\ ServerIdle

SearchGemini ==
  /\ script = "gemini"
  /\ \E q \in SearchQueries, k \in 1..MaxTopK, out \in GeminiFew :
       GeminiPersonalizedTutor(q, k, out)
SearchQwen2 ==
  /\ script = "qwen2"
  /\ \E q \in SearchQueries, k \in 1..MaxTopK, out \in Qwen2Few :
       Qwen2PersonalizedTutor(q, k, out)

NextSearch ==
  /\ calls < MaxSearchCalls
  /\ calls' = calls + 1
  /\ (SearchGemini \/ SearchQwen2)
  /\ UNCHANGED <<script, corpus_vars, server_vars, threads>>

SpecSearch == InitSearch /\ [][NextSearch]_vars

\* ------------------------------------------------------------ HTTP server
\* str.lower() of a model name
LowerName(m) ==
  CASE m = "PHI3" -> "phi3"
    [] m = "LLAMA" -> "llama"
    [] OTHER -> m

\* the model member of a request body: a string, null, or left out
Absent == "<absent>"
Null == "<null>"
ModelFields == {"phi3", "llama", "gemini", "LLAMA", Null, Absent}
SwitchModels == {"phi3", "llama", "gemini", "PHI3", "bogus"}

\* ChatRequest.model: Optional[str] = "phi3"
ChatRequestModel(field) == IF field = Absent THEN "phi3" ELSE field
Truthy(m) == m # Null /\ m # ""

\* fastapi_server after import: a backend whose import failed is None
InitServer ==
  /\ script = "server"
  /\ Loaded(DefaultDataset)
  /\ phi3_tutor \in BOOLEAN
  /\ llama_tutor \in BOOLEAN
  /\ gemini_tutor \in BOOLEAN
  /\ qwen2_tutor \in BOOLEAN
  /\ current_model = "phi3"
  /\ current_tutor = IF phi3_tutor THEN "phi3" ELSE IF llama_tutor THEN "llama" ELSE "None"
  /\ req = NoReq
  /\ resp = NoResp
  /\ threads = NoThreads

\* an error body that leaves out the status member
ErrorBodyNoStatus(text) == [error |-> text]

\* {"error": ..., "status": "error"}
ErrorBody(text) == [error |-> text, status |-> "error"]
HandlerError(r) == ErrorBody(<<"Error generating response:">> \o ExcMessage(r.exc))

\* current_tutor.ask_question(message)
CurrentTutorAsk(tutor, message) ==
  \/ /\ tutor = "phi3"
     /\ \E out \in OllamaFew, dt \in ServerRespTimes : Phi3Ask(message, out, dt)
  \/ /\ tutor = "llama"
     /\ \E out \in OllamaFew, dt \in ServerRespTimes : LlamaAsk(message, out, dt)

\* a handler that switches to the named local model without looking at
\* whether its tutor object exists
SwitchModelUnchecked ==
  \E m \in SwitchModels :
    /\ req' = [op |-> "switch-model", model |-> m]
    /\ IF LowerName(m) \in {"phi3", "llama"}
       THEN /\ current_tutor' = LowerName(m)
            /\ current_model' = LowerName(m)
            /\ resp' = [status |-> "success", message |-> "Switched",
                        model |-> LowerName(m)]
       ELSE /\ UNCHANGED <<current_tutor, current_model>>
            /\ resp' = [status |-> "error",
                        message |-> <<"Model", m, "not available">>]
    /\ UNCHANGED backend_vars

\* POST /switch-model
SwitchModel ==
  \E m \in SwitchModels :
    /\ req' = [op |-> "switch-model", model |-> m]
    /\ IF LowerName(m) = "phi3" /\ phi3_tutor
       THEN /\ current_tutor' = "phi3"
            /\ current_model' = "phi3"
            /\ resp' = [status |-> "success",
                        message |-> "Switched to Phi3:Mini (Ultra-Fast Mode)",
                        model |-> "phi3:mini", response_time |-> "1-2 seconds",
                        gpu_accelerated |-> TRUE]
       ELSE IF LowerName(m) = "llama" /\ llama_tutor
       THEN /\ current_tutor' = "llama"
            /\ current_model' = "llama"
            /\ resp' = [status |-> "success",
                        message |-> "Switched to Llama3.1:8B (Comprehensive Mode)",
                        model |-> "llama3.1:8b", response_time |-> "3-5 seconds",
                        gpu_accelerated |-> TRUE]
       ELSE IF LowerName(m) = "gemini" /\ gemini_tutor
       THEN /\ current_model' = "gemini"
            /\ UNCHANGED current_tutor
            /\ resp' = [status |-> "success",
                        message |-> "Switched to Gemini (Code & Config Mode)",
                        model |-> "gemini-1.5-flash", response_time |-> "2-4 seconds",
                        gpu_accelerated |-> FALSE]
       ELSE /\ UNCHANGED <<current_tutor, current_model>>
            /\ resp' = [status |-> "error",
                        message |-> <<"Model", m, "not available">>]
    /\ UNCHANGED backend_vars

\* the selection part of /chat
ChatSelect(model) ==
  IF Truthy(model) /\ model # current_model
  THEN IF LowerName(model) = "phi3" /\ phi3_tutor
       THEN [tutor |-> "phi3", model |-> "phi3"]
       ELSE IF LowerName(model) = "llama" /\ llama_tutor
       THEN [tutor |-> "llama", model |-> "llama"]
       ELSE [tutor |-> current_tutor, model |-> current_model]
  ELSE [tutor |-> current_tutor, model |-> current_model]

\* POST /chat
ChatEndpoint ==
  \E field \in ModelFields, message \in ServerMessages :
    LET sel == ChatSelect(ChatRequestModel(field))
    IN  /\ req' = [op |-> "chat", model |-> field, message |-> message]
        /\ current_tutor' = sel.tutor
        /\ current_model' = sel.model
        /\ IF sel.tutor # "None"
           THEN /\ CurrentTutorAsk(sel.tutor, message)
                /\ resp' = IF ret'.kind = "raised" THEN HandlerError(ret')
                           ELSE [response |-> ret'.value,
                                 model_used |-> IF sel.model = "phi3" THEN "phi3:mini"
                                                ELSE "llama3.1:8b",
                                 model_type |-> sel.model,
                                 subject |-> "ccna",
                                 gpu_accelerated |-> TRUE,
                                 status |-> "success"]
           ELSE IF gemini_tutor
           THEN /\ \E out \in GeminiFew : GeminiPersonalizedTutor(message, DefaultTopK, out)
                /\ resp' = IF ret'.kind = "raised" THEN HandlerError(ret')
                           ELSE [response |-> ret'.value,
                                 model_used |-> "gemini",
                                 subject |-> "networking",
                                 status |-> "success"]
           ELSE /\ resp' = ErrorBody(<<"No AI model available">>)
                /\ UNCHANGED backend_vars

\* a /chat-phi3 that also makes phi3 the current tutor
ChatPhi3EndpointSelecting ==
  \E field \in {"llama"}, message \in ServerMessages :
    /\ req' = [op |-> "chat-phi3", model |-> field, message |-> message]
    /\ IF phi3_tutor
       THEN /\ \E out \in OllamaFew, dt \in ServerRespTimes : Phi3Ask(message, out, dt)
            /\ resp' = [response |-> ret'.value, model_used |-> "phi3:mini",
                        status |-> "success"]
            /\ current_tutor' = "phi3"
            /\ current_model' = "phi3"
       ELSE /\ resp' = ErrorBody(<<"Phi3 model not available.">>)
            /\ UNCHANGED <<backend_vars, current_tutor, current_model>>

\* POST /chat-phi3
ChatPhi3Endpoint ==
  \E field \in {"llama"}, message \in ServerMessages :
    /\ req' = [op |-> "chat-phi3", model |-> field, message |-> message]
    /\ IF phi3_tutor
       THEN /\ \E out \in OllamaFew, dt \in ServerRespTimes : Phi3Ask(message, out, dt)
            /\ resp' = IF ret'.kind = "raised" THEN HandlerError(ret')
                       ELSE [response |-> ret'.value, model_used |-> "phi3:mini",
                             model_type |-> "logic", subject |-> "ccna",
                             gpu_accelerated |-> TRUE, response_time |-> "1-2s",
                             status |-> "success"]
       ELSE /\ resp' = ErrorBody(<<"Phi3 model not available.">>)
            /\ UNCHANGED backend_vars
    /\ UNCHANGED <<current_tutor, current_model>>

\* POST /chat-llama
ChatLlamaEndpoint ==
  \E field \in {"phi3"}, message \in ServerMessages :
    /\ req' = [op |-> "chat-llama", model |-> field, message |-> message]
    /\ IF llama_tutor
       THEN /\ \E out \in OllamaFew, dt \in ServerRespTimes : LlamaAsk(message, out, dt)
            /\ resp' = IF ret'.kind = "raised" THEN HandlerError(ret')
                       ELSE [response |-> ret'.value, model_used |-> "llama3.1:8b",
                             model_type |-> "comprehensive", subject |-> "ccna",
                             gpu_accelerated |-> TRUE, response_time |-> "3-5s",
                             status |-> "success"]
       ELSE /\ resp' = ErrorBody(<<"Llama model not available.">>)
            /\ UNCHANGED backend_vars
    /\ UNCHANGED <<current_tutor, current_model>>

\* POST /chat-gemini
ChatGeminiEndpoint ==
  \E field \in {"phi3"}, message \in ServerMessages :
    /\ req' = [op |-> "chat-gemini", model |-> field, message |-> message]
    /\ IF gemini_tutor
       THEN /\ \E out \in GeminiFew : GeminiPersonalizedTutor(message, DefaultTopK, out)
            /\ resp' = IF ret'.kind = "raised" THEN HandlerError(ret')
                       ELSE [response |-> ret'.value,
                             model_used |-> "gemini-1.5-flash-latest",
                             model_type |-> "code", subject |-> "ccna",
                             gpu_accelerated |-> FALSE, response_time |-> "2-4s",
                             status |-> "success"]
       ELSE /\ resp' = ErrorBody(<<"Gemini API not available.">>)
            /\ UNCHANGED backend_vars
    /\ UNCHANGED <<current_tutor, current_model>>

\* the mode /chat-qwen2 derives from the message
Qwen2Mode(message) ==
  LET m == Lower(message)
  IN  IF AnyIn(<< <<"configure">>, <<"setup">>, <<"command">>, <<"cli">> >>, m)
      THEN "configuration"
      ELSE IF AnyIn(<< <<"troubleshoot">>, <<"problem">>, <<"issue">>, <<"error">> >>, m)
      THEN "troubleshooting"
      ELSE IF AnyIn(<< <<"what">>, <<"explain">>, <<"define">> >>, m)
      THEN "concepts"
      ELSE "practice"

\* POST /chat-qwen2
ChatQwen2Endpoint ==
  \E field \in {Absent}, message \in ServerMessages :
    /\ req' = [op |-> "chat-qwen2", model |-> field, message |-> message]
    /\ IF qwen2_tutor
       THEN /\ \E out \in Qwen2Few : Qwen2PersonalizedTutor(message, DefaultTopK, out)
            /\ resp' = IF ret'.kind = "raised" THEN HandlerError(ret')
                       ELSE [response |-> ret'.value, model_used |-> "qwen2:0.5b",
                             model_type |-> "practice", mode |-> Qwen2Mode(message),
                             gpu_accelerated |-> TRUE, response_time |-> "<1s",
                             status |-> "success"]
       ELSE /\ resp' = ErrorBody(<<"Qwen2 model not available.">>)
            /\ UNCHANGED backend_vars
    /\ UNCHANGED <<current_tutor, current_model>>

\* POST /ask
AskTutor ==
  \E question \in ServerMessages :
    /\ req' = [op |-> "ask", question |-> question]
    /\ IF current_tutor # "None"
       THEN /\ CurrentTutorAsk(current_tutor, question)
            /\ resp' = IF ret'.kind = "raised"
                       THEN [error |-> <<"Error:">> \o ExcMessage(ret'.exc)]
                       ELSE [answer |-> ret'.value]
       ELSE IF gemini_tutor
       THEN /\ \E out \in GeminiFew : GeminiPersonalizedTutor(question, DefaultTopK, out)
            /\ resp' = IF ret'.kind = "raised"
                       THEN [error |-> <<"Error:">> \o ExcMessage(ret'.exc)]
                       ELSE [answer |-> ret'.value]
       ELSE /\ resp' = [error |-> <<"No AI model available">>]
            /\ UNCHANGED backend_vars
    /\ UNCHANGED <<current_tutor, current_model>>

\* GET /
Root ==
  /\ req' = [op |-> "root"]
  /\ resp' = [message |-> "CCNA AI Tutor API", version |-> "2.0.0", docs |-> "/docs",
              models_available |-> [phi3 |-> phi3_tutor, llama |-> llama_tutor,
                                    gemini |-> gemini_tutor]]
  /\ UNCHANGED <<current_tutor, current_model, backend_vars>>

\* the ids /models lists
AvailableIds ==
  (IF phi3_tutor THEN <<"phi3">> ELSE <<>>)
    \o (IF llama_tutor THEN <<"llama">> ELSE <<>>)
    \o (IF gemini_tutor THEN <<"gemini">> ELSE <<>>)

\* GET /models
GetAvailableModels ==
  /\ req' = [op |-> "models"]
  /\ resp' = [available_models |-> AvailableIds,
              total_models |-> Len(AvailableIds),
              current_model |-> current_model,
              current_tutor |-> CASE current_tutor = "phi3" -> "Phi3CCNATutor"
                                  [] current_tutor = "llama" -> "LlamaCCNATutor"
                                  [] OTHER -> "Gemini API",
              status |-> "success"]
  /\ UNCHANGED <<current_tutor, current_model, backend_vars>>

\* GET /health
HealthCheck ==
  /\ req' = [op |-> "health"]
  /\ resp' = [status |-> IF Len(AvailableIds) > 0 THEN "healthy" ELSE "degraded",
              api_version |-> "2.0.0",
              models_available |-> AvailableIds,
              total_models_ready |-> Len(AvailableIds),
              current_model |-> current_model,
              gpu_accelerated |-> (current_tutor # "None"),
              port |-> 8000]
  /\ UNCHANGED <<current_tutor, current_model, backend_vars>>

Next ==
  /\ calls < MaxRequests
  /\ calls' = calls + 1
  /\ \/ SwitchModel
     \/ ChatEndpoint
     \/ ChatPhi3Endpoint
     \/ ChatLlamaEndpoint
     \/ ChatGeminiEndpoint
     \/ ChatQwen2Endpoint
     \/ AskTutor
     \/ Root
     \/ GetAvailableModels
     \/ HealthCheck
  /\ UNCHANGED <<script, corpus_vars, phi3_tutor, llama_tutor, gemini_tutor, qwen2_tutor,
               threads>>

Spec == InitServer /\ [][Next]_vars

\* ------------------------------------ the classifiers of the local tutors
\* the words the classified texts are made of, and the texts: every
\* sequence of at most MaxTextLen words, the empty text included
TopicWords ==
  {"OSPF", "VLAN", "Map", "hello", "QoS", "Configure", "Redundancy"}

RECURSIVE TextsUpTo(_)
TextsUpTo(n) ==
  IF n = 0 THEN {<<>>}
  ELSE LET shorter == TextsUpTo(n - 1)
       IN  shorter \cup {Append(t, w) : t \in {x \in shorter : Len(x) = n - 1},
                                         w \in TopicWords}

TopicTexts == TextsUpTo(MaxTextLen)

InitTopic ==
  /\ script \in {"phi3", "llama"}
  /\ Loaded(DefaultDataset)
  /\ ServerIdle

\* Phi3CCNATutor._extract_topic(query)
Phi3ExtractTopicCall ==
  /\ script = "phi3"
  /\ \E query \in TopicTexts :
       locals' = [backend |-> "phi3", fn |-> "_extract_topic", query |-> query,
                  result |-> Phi3ExtractTopic(query)]

\* LlamaCCNATutor._extract_topic(query)
LlamaExtractTopicCall ==
  /\ script = "llama"
  /\ \E query \in TopicTexts :
       locals' = [backend |-> "llama", fn |-> "_extract_topic", query |-> query,
                  result |-> LlamaExtractTopic(query)]

\* LlamaCCNATutor._assess_complexity(query)
LlamaAssessComplexityCall ==
  /\ script = "llama"
  /\ \E query \in TopicTexts :
       locals' = [backend |-> "llama", fn |-> "_assess_complexity", query |-> query,
                  result |-> AssessComplexity(query)]

NextTopic ==
  /\ calls < MaxTopicCalls
  /\ calls' = calls + 1
  /\ (Phi3ExtractTopicCall \/ LlamaExtractTopicCall \/ LlamaAssessComplexityCall)
  /\ UNCHANGED <<script, corpus_vars, server_vars, threads, g_history, q_history, phi3,
                 llama, now, call, ret>>

SpecTopic == InitTopic /\ [][NextTopic]_vars

\* -------------------------------- start-up of the gemini and qwen2 modules
\* the module-level code before its first statement after json.load
InitLoad ==
  /\ script \in {"gemini", "qwen2"}
  /\ data \in LoadFiles
  /\ boot = [stage |-> "loading", pos |-> 0, exc |-> "none", stdout |-> <<>>]
  /\ questions = <<>>
  /\ correct_texts = <<>>
  /\ g_history = <<>>
  /\ q_history = <<>>
  /\ phi3 = Phi3Init
  /\ llama = LlamaInit
  /\ now = 0
  /\ calls = 0
  /\ locals = NoLocals
  /\ call = NoCall
  /\ ret = NoRet
  /\ ServerIdle

\* one iteration of `for item in data`
LoadItem ==
  /\ boot.stage = "loading"
  /\ boot.pos < Len(data)
  /\ LET r == LoadItemStep(data[boot.pos + 1], questions, correct_texts)
     IN  /\ questions' = r.questions
         /\ correct_texts' = r.correct_texts
         /\ boot' = IF r.exc = "none" THEN [boot EXCEPT !.pos = @ + 1]
                    ELSE [boot EXCEPT !.stage = "failed", !.exc = r.exc]
  /\ UNCHANGED <<data, calls, backend_vars>>

\* the prints that follow the loop
PrintLoaded ==
  /\ boot.stage = "loading"
  /\ boot.pos = Len(data)
  /\ LET r == PrintFirst(questions, correct_texts)
     IN  boot' = [boot EXCEPT
                    !.stage = IF r.exc = "none" THEN "loaded" ELSE "failed",
                    !.exc = r.exc,
                    !.stdout = @ \o r.lines]
  /\ UNCHANGED <<data, questions, correct_texts, calls, backend_vars>>

\* embedding_model.encode(questions), IndexFlatL2(embeddings.shape[1]),
\* index.add(embeddings); what the libraries do with no question at all is
\* theirs to decide: embeddings.shape[1] raises, or an empty index is built
BuildIndex ==
  /\ boot.stage = "loaded"
  /\ \E built \in IF Len(questions) = 0 THEN BOOLEAN ELSE {TRUE} :
       boot' = IF built
               THEN [boot EXCEPT !.stage = "ready",
                                 !.stdout = @ \o << <<"Using device:">> >>]
               ELSE [boot EXCEPT !.stage = "failed", !.exc = "IndexError",
                                 !.stdout = @ \o << <<"Using device:">> >>]
  /\ UNCHANGED <<data, questions, correct_texts, calls, backend_vars>>

\* the first query of the __main__ loop
ServeGemini ==
  /\ script = "gemini"
  /\ boot.stage = "ready"
  /\ calls < MaxSearchCalls
  /\ calls' = calls + 1
  /\ \E q \in Queries, out \in GeminiFew : GeminiPersonalizedTutor(q, DefaultTopK, out)
  /\ UNCHANGED corpus_vars
ServeQwen2 ==
  /\ script = "qwen2"
  /\ boot.stage = "ready"
  /\ calls < MaxSearchCalls
  /\ calls' = calls + 1
  /\ \E q \in Queries, out \in Qwen2Few : Qwen2PersonalizedTutor(q, DefaultTopK, out)
  /\ UNCHANGED corpus_vars

NextLoad ==
  /\ (LoadItem \/ PrintLoaded \/ BuildIndex \/ ServeGemini \/ ServeQwen2)
  /\ UNCHANGED <<script, server_vars, threads>>

SpecLoad == InitLoad /\ [][NextLoad]_vars

\* ------------------------------------------ statistics of the local tutors
\* sum(t['questions_asked'] for t in topic_performance.values())
RECURSIVE SumAsked(_, _)
SumAsked(tp, topics) ==
  IF topics = {} THEN 0
  ELSE LET t == CHOOSE x \in topics : TRUE
       IN  tp[t].questions_asked + SumAsked(tp, topics \ {t})

\* f"{num / den:.2f}s": the quotient rounded to hundredths, as the whole
\* part, the two decimals and the unit (response times are whole seconds
\* here, and no quotient of the runs lies half-way between two hundredths)
Format2f(num, den) ==
  LET h == (200 * num + den) \div (2 * den)
  IN  <<h \div 100, ".", h % 100, "s">>

\* Phi3CCNATutor.get_stats
Phi3GetStats(self) ==
  LET tp == self.topic_performance
      active == {t \in DOMAIN tp : tp[t].questions_asked > 0}
  IN  [model |-> self.model,
       questions_answered |-> SumAsked(tp, DOMAIN tp),
       avg_response_time |->
         Format2f(self.total_response_time, Max(1, Cardinality(active))),
       topics_covered |-> DOMAIN tp]

\* LlamaCCNATutor.get_stats
LlamaGetStats(self) ==
  LET tp == self.topic_performance
      total_questions == SumAsked(tp, DOMAIN tp)
      level(c) == Cardinality({t \in DOMAIN tp : tp[t].complexity_level = c})
  IN  [model |-> self.model,
       questions_answered |-> total_questions,
       avg_response_time |->
         Format2f(self.total_response_time, Max(1, total_questions)),
       topics_covered |-> DOMAIN tp,
       topic_details |-> tp,
       complexity_distribution |->
         [basic |-> level("basic"), intermediate |-> level("intermediate"),
          advanced |-> level("advanced")]]

\* the __main__ loops of the phi3 and llama modules, with their 'stats'
\* command
InitStats ==
  /\ script \in {"phi3", "llama"}
  /\ Loaded(DefaultDataset)
  /\ ServerIdle

StatsPhi3Ask ==
  /\ script = "phi3"
  /\ \E q \in Queries, out \in OllamaStats, dt \in RespTimes : Phi3Ask(q, out, dt)
StatsLlamaAsk ==
  /\ script = "llama"
  /\ \E q \in Queries, out \in OllamaStats, dt \in RespTimes : LlamaAsk(q, out, dt)
StatsPhi3Get ==
  /\ script = "phi3"
  /\ locals' = [backend |-> "phi3", fn |-> "get_stats", result |-> Phi3GetStats(phi3)]
  /\ UNCHANGED <<g_history, q_history, phi3, llama, now, call, ret>>
StatsLlamaGet ==
  /\ script = "llama"
  /\ locals' = [backend |-> "llama", fn |-> "get_stats", result |-> LlamaGetStats(llama)]
  /\ UNCHANGED <<g_history, q_history, phi3, llama, now, call, ret>>

NextStats ==
  /\ calls < MaxShortCalls
  /\ calls' = calls + 1
  /\ (StatsPhi3Ask \/ StatsLlamaAsk \/ StatsPhi3Get \/ StatsLlamaGet)
  /\ UNCHANGED <<script, corpus_vars, server_vars, threads>>

SpecStats == InitStats /\ [][NextStats]_vars

\* --------------------------------- /chat requests in the worker threads
\* chat_endpoint is a plain `def` handler, which FastAPI runs in a thread
\* pool: two /chat requests run in two threads over the same module
\* globals, with nothing that holds one back while the other is between two
\* statements. A step of a thread is one test, one assignment of a global,
\* one read of a global, or the call of the tutor.
RaceModels == {"phi3", "llama"}

\* line 193: request.model and request.model != current_model
ChatWantsSwitch(model) == Truthy(model) /\ model # current_model

\* a selection that takes the other local tutor than the one named
ChatTargetSwapped(model) ==
  IF LowerName(model) = "phi3" /\ llama_tutor THEN "llama"
  ELSE IF LowerName(model) = "llama" /\ phi3_tutor THEN "phi3"
  ELSE "none"

\* lines 194-199: the tutor the request makes current, "none" when it names
\* no local tutor that is loaded
ChatTarget(model) ==
  IF LowerName(model) = "phi3" /\ phi3_tutor THEN "phi3"
  ELSE IF LowerName(model) = "llama" /\ llama_tutor THEN "llama"
  ELSE "none"

\* line 204
ModelName(model) == IF model = "phi3" THEN "phi3:mini" ELSE "llama3.1:8b"

\* the server with both local tutors loaded and no request in progress
InitChatRace ==
  /\ script = "server"
  /\ Loaded(DefaultDataset)
  /\ ServerIdle

\* a request reaches the handler in thread t
ChatArrive(t) ==
  /\ threads[t].pc = "idle"
  /\ \E model \in RaceModels, message \in ServerMessages :
       /\ threads' = [threads EXCEPT ![t] =
                        [pc |-> "test", model |-> model, message |-> message,
                         target |-> "none", tutor |-> "none", answer |-> NoRet,
                         resp |-> NoResp]]
       /\ req' = [op |-> "chat", model |-> model, message |-> message]
  /\ calls' = calls + 1
  /\ UNCHANGED <<current_tutor, current_model, resp, backend_vars>>

\* lines 193, 194 and 197: the tests, which read current_model
ChatTest(t) ==
  /\ threads[t].pc = "test"
  /\ LET model == threads[t].model
         target == IF ChatWantsSwitch(model) THEN ChatTarget(model) ELSE "none"
     IN  threads' = [threads EXCEPT ![t].target = target,
                                    ![t].pc = IF target = "none" THEN "read_tutor"
                                              ELSE "set_tutor"]
  /\ UNCHANGED <<calls, current_tutor, current_model, req, resp, backend_vars>>

\* lines 195 and 198: current_tutor = phi3_tutor, current_tutor = llama_tutor
ChatSetTutor(t) ==
  /\ threads[t].pc = "set_tutor"
  /\ current_tutor' = threads[t].target
  /\ threads' = [threads EXCEPT ![t].pc = "set_model"]
  /\ UNCHANGED <<calls, current_model, req, resp, backend_vars>>

\* lines 196 and 199: current_model = "phi3", current_model = "llama"
ChatSetModel(t) ==
  /\ threads[t].pc = "set_model"
  /\ current_model' = threads[t].target
  /\ threads' = [threads EXCEPT ![t].pc = "read_tutor"]
  /\ UNCHANGED <<calls, current_tutor, req, resp, backend_vars>>

\* lines 202-203: the global current_tutor is read and its ask_question is
\* entered (with both tutors loaded current_tutor is never None)
ChatReadTutor(t) ==
  /\ threads[t].pc = "read_tutor"
  /\ current_tutor # "None"
  /\ threads' = [threads EXCEPT ![t].tutor = current_tutor, ![t].pc = "asking"]
  /\ UNCHANGED <<calls, current_tutor, current_model, req, resp, backend_vars>>

\* line 203: ask_question of the tutor that was read returns
ChatAsk(t) ==
  /\ threads[t].pc = "asking"
  /\ CurrentTutorAsk(threads[t].tutor, threads[t].message)
  /\ threads' = [threads EXCEPT ![t].answer = ret', ![t].pc = "name"]
  /\ UNCHANGED <<calls, current_tutor, current_model, req, resp>>

\* lines 204-212 (and 224-228): current_model is read for model_used and
\* model_type, and the body is returned
ChatReturn(t) ==
  /\ threads[t].pc = "name"
  /\ LET answer == threads[t].answer
         body == IF answer.kind = "raised" THEN HandlerError(answer)
                 ELSE [response |-> answer.value,
                       model_used |-> ModelName(current_model),
                       model_type |-> current_model,
                       subject |-> "ccna",
                       gpu_accelerated |-> TRUE,
                       status |-> "success"]
     IN  /\ resp' = body
         /\ threads' = [threads EXCEPT ![t].resp = body, ![t].pc = "done"]
  /\ UNCHANGED <<calls, current_tutor, current_model, req, backend_vars>>

NextChatRace ==
  /\ \E t \in Threads :
       \/ ChatArrive(t)
       \/ ChatTest(t)
       \/ ChatSetTutor(t)
       \/ ChatSetModel(t)
       \/ ChatReadTutor(t)
       \/ ChatAsk(t)
       \/ ChatReturn(t)
  /\ UNCHANGED <<script, corpus_vars, phi3_tutor, llama_tutor, gemini_tutor, qwen2_tutor>>

SpecChatRace == InitChatRace /\ [][NextChatRace]_vars

\* ----------------------------- ask_question calls in the worker threads
\* The server calls ask_question of one tutor object from its worker
\* threads. _update_learning_analytics holds no lock: `d[k] += x` is a read
\* of d[k], an addition and a store, and another thread can run between
\* the read and the store. A step of a thread is the model call, one test,
\* one read or one store.

\* an addition that counts the amount twice
InPlaceAddTwice(read, amount) == read + amount + amount

\* `+=`: the value read before, plus the amount
InPlaceAdd(read, amount) == read + amount

\* the dict stored for a topic that has no entry yet; t is time.time()
Phi3NewEntry ==
  [questions_asked |-> 0, avg_response_time |-> 0, complexity_level |-> "basic"]
LlamaNewEntry(t) ==
  [questions_asked |-> 0, avg_response_time |-> 0, complexity_level |-> "basic",
   last_accessed |-> t]

\* self.stats['topic_performance'] with the entry of `topic` replaced
WithEntry(self, topic, entry) ==
  LET tp == self.topic_performance
  IN  [self EXCEPT !.topic_performance =
         [x \in DOMAIN tp \cup {topic} |-> IF x = topic THEN entry ELSE tp[x]]]

\* the one tutor object the threads share, and its assignment
SharedTutor == IF script = "phi3" THEN phi3 ELSE llama
StoreTutor(self) ==
  IF script = "phi3" THEN phi3' = self /\ UNCHANGED llama
  ELSE llama' = self /\ UNCHANGED phi3

InitAskRace ==
  /\ script \in {"phi3", "llama"}
  /\ Loaded(DefaultDataset)
  /\ ServerIdle

\* ask_question is entered in thread t and ollama.chat is called
AskEnter(t) ==
  /\ threads[t].pc = "idle"
  /\ \E query \in Queries, out \in OllamaFew, dt \in RespTimes :
       /\ threads' = [threads EXCEPT ![t] =
            [pc |-> "chatting", query |-> query, out |-> out, dt |-> dt,
             topic |-> IF script = "phi3" THEN Phi3ExtractTopic(query)
                       ELSE LlamaExtractTopic(query),
             read |-> 0, answered |-> FALSE, ret |-> NoRet]]
       /\ call' = [backend |-> script,
                   input |-> SystemPrompt(SharedTutor)
                               \o (IF script = "phi3" THEN Phi3BuildEnhancedPrompt(query)
                                   ELSE LlamaBuildDetailedPrompt(query)),
                   out |-> out]
  /\ calls' = calls + 1
  /\ UNCHANGED <<g_history, q_history, phi3, llama, now, locals, ret>>

\* ollama.chat returns or raises; on an exception the except branch returns
\* the apology and the analytics are not touched
AskChatReturns(t) ==
  /\ threads[t].pc = "chatting"
  /\ LET r == OllamaTry(threads[t].out)
         failed == r.kind = "raised"
         answer == IF failed THEN Text(Apology(SharedTutor))
                   ELSE IF script = "phi3"
                        THEN Text(Phi3EnhanceResponse(r.value, threads[t].query))
                        ELSE Text(LlamaEnhanceResponse(r.value, threads[t].query))
     IN  /\ threads' = [threads EXCEPT ![t].ret = answer,
                                       ![t].answered = ~failed,
                                       ![t].pc = IF failed THEN "done" ELSE "check"]
         /\ ret' = IF failed THEN answer ELSE ret
  /\ now' = now + threads[t].dt
  /\ UNCHANGED <<calls, g_history, q_history, phi3, llama, locals, call>>

\* if topic not in self.stats['topic_performance']
AnCheck(t) ==
  /\ threads[t].pc = "check"
  /\ threads' = [threads EXCEPT ![t].pc =
       IF threads[t].topic \in DOMAIN SharedTutor.topic_performance
       THEN "read_asked" ELSE "create"]
  /\ UNCHANGED <<calls, backend_vars>>

\* self.stats['topic_performance'][topic] = {...}
AnCreate(t) ==
  /\ threads[t].pc = "create"
  /\ StoreTutor(WithEntry(SharedTutor, threads[t].topic,
                          IF script = "phi3" THEN Phi3NewEntry ELSE LlamaNewEntry(now)))
  /\ threads' = [threads EXCEPT ![t].pc = "read_asked"]
  /\ UNCHANGED <<calls, g_history, q_history, now, locals, call, ret>>

\* ['questions_asked'] += 1, the read
AnReadAsked(t) ==
  /\ threads[t].pc = "read_asked"
  /\ threads' = [threads EXCEPT
       ![t].read = SharedTutor.topic_performance[threads[t].topic].questions_asked,
       ![t].pc = "write_asked"]
  /\ UNCHANGED <<calls, backend_vars>>

\* ['questions_asked'] += 1, the store
AnWriteAsked(t) ==
  /\ threads[t].pc = "write_asked"
  /\ LET topic == threads[t].topic
         entry == SharedTutor.topic_performance[topic]
     IN  StoreTutor(WithEntry(SharedTutor, topic,
           [entry EXCEPT !.questions_asked = InPlaceAdd(threads[t].read, 1)]))
  /\ threads' = [threads EXCEPT ![t].pc =
       IF script = "phi3" THEN "read_total" ELSE "set_complexity"]
  /\ UNCHANGED <<calls, g_history, q_history, now, locals, call, ret>>

\* llama: ['complexity_level'] = complexity
AnSetComplexity(t) ==
  /\ threads[t].pc = "set_complexity"
  /\ LET topic == threads[t].topic
         entry == SharedTutor.topic_performance[topic]
     IN  StoreTutor(WithEntry(SharedTutor, topic,
           [entry EXCEPT !.complexity_level = AssessComplexity(threads[t].query)]))
  /\ threads' = [threads EXCEPT ![t].pc = "set_accessed"]
  /\ UNCHANGED <<calls, g_history, q_history, now, locals, call, ret>>

\* llama: ['last_accessed'] = time.time()
AnSetAccessed(t) ==
  /\ threads[t].pc = "set_accessed"
  /\ LET topic == threads[t].topic
         entry == SharedTutor.topic_performance[topic]
     IN  StoreTutor(WithEntry(SharedTutor, topic,
           [entry EXCEPT !.last_accessed = now]))
  /\ threads' = [threads EXCEPT ![t].pc = "read_total"]
  /\ UNCHANGED <<calls, g_history, q_history, now, locals, call, ret>>

\* self.stats['total_response_time'] += response_time, the read
AnReadTotal(t) ==
  /\ threads[t].pc = "read_total"
  /\ threads' = [threads EXCEPT ![t].read = SharedTutor.total_response_time,
                                ![t].pc = "write_total"]
  /\ UNCHANGED <<calls, backend_vars>>

\* self.stats['total_response_time'] += response_time, the store; then
\* ask_question returns the answer
AnWriteTotal(t) ==
  /\ threads[t].pc = "write_total"
  /\ StoreTutor([SharedTutor EXCEPT
       !.total_response_time = InPlaceAdd(threads[t].read, threads[t].dt)])
  /\ threads' = [threads EXCEPT ![t].pc = "done"]
  /\ ret' = threads[t].ret
  /\ UNCHANGED <<calls, g_history, q_history, now, locals, call>>

NextAskRace ==
  /\ \E t \in Threads :
       \/ AskEnter(t)
       \/ AskChatReturns(t)
       \/ AnCheck(t)
       \/ AnCreate(t)
       \/ AnReadAsked(t)
       \/ AnWriteAsked(t)
       \/ AnSetComplexity(t)
       \/ AnSetAccessed(t)
       \/ AnReadTotal(t)
       \/ AnWriteTotal(t)
  /\ UNCHANGED <<script, corpus_vars, server_vars>>

SpecAskRace == InitAskRace /\ [][NextAskRace]_vars

\* --------------------------- personalized_tutor calls in the worker threads
\* /chat-gemini and /chat-qwen2 are plain `def` handlers too: several
\* personalized_tutor calls run at once over the module's
\* conversation_history. list.append is one indivisible operation of the
\* interpreter; between the return of generate_answer and the append another
\* thread can run. `now` ticks at every return and at every append.
SharedHistory == IF script = "gemini" THEN g_history ELSE q_history

InitTutorRace ==
  /\ script \in {"gemini", "qwen2"}
  /\ Loaded(DefaultDataset)
  /\ ServerIdle

\* the call arrives in thread t: search, context, the read of the history,
\* the prompt; generate_answer is entered
PtEnter(t) ==
  /\ threads[t].pc = "idle"
  /\ \E query \in Queries :
       LET I == Search(questions, query, DefaultTopK)
           context == Join(<<"\n">>, ContextBlocks(questions, correct_texts, I))
           history_text == IF script = "gemini" THEN GeminiHistoryText(g_history)
                           ELSE Qwen2HistoryText(q_history)
           prompt == IF script = "gemini"
                     THEN GeminiPrompt(context, history_text, query)
                     ELSE Qwen2Prompt(context, query)
       IN  threads' = [threads EXCEPT ![t] =
             [pc |-> "generating", query |-> query, prompt |-> prompt,
              arrived |-> calls + 1, response_text |-> <<>>,
              generated |-> 0, appended |-> 0, slot |-> 0]]
  /\ calls' = calls + 1
  /\ UNCHANGED backend_vars

\* generate_answer returns in thread t
PtGenerated(t) ==
  /\ threads[t].pc = "generating"
  /\ IF script = "gemini"
     THEN \E out \in GeminiFew : GeminiGenerate(threads[t].prompt, out)
     ELSE \E out \in Qwen2Few : Qwen2Generate(threads[t].prompt, out)
  /\ now' = now + 1
  /\ threads' = IF ret'.kind = "text"
                THEN [threads EXCEPT ![t].response_text = ret'.value,
                                     ![t].generated = now',
                                     ![t].pc = "append"]
                ELSE [threads EXCEPT ![t].pc = "raised"]
  /\ UNCHANGED <<calls, g_history, q_history, phi3, llama, locals>>

\* conversation_history.append(...) and the return of personalized_tutor
PtAppend(t) ==
  /\ threads[t].pc = "append"
  /\ now' = now + 1
  /\ LET h == Remember(SharedHistory, threads[t].query, threads[t].response_text)
     IN  /\ IF script = "gemini" THEN g_history' = h /\ UNCHANGED q_history
            ELSE q_history' = h /\ UNCHANGED g_history
         /\ threads' = [threads EXCEPT ![t].appended = now',
                                       ![t].slot = Len(h),
                                       ![t].pc = "done"]
  /\ UNCHANGED <<calls, phi3, llama, locals, call, ret>>

NextTutorRace ==
  /\ \E t \in Threads : PtEnter(t) \/ PtGenerated(t) \/ PtAppend(t)
  /\ UNCHANGED <<script, corpus_vars, server_vars>>

SpecTutorRace == InitTutorRace /\ [][NextTutorRace]_vars

\* ================================================================== claims
\* a text carries an error indicator when one of its tokens is the marker
\* the gemini and qwen2 modules open their error strings with
ErrorMarkers == {"[Error]", "[Error", "Error", "error", "ERROR"}
HasErrorIndicator(text) == \E i \in 1..Len(text) : text[i] \in ErrorMarkers

Called == call.backend # "none"
Failed == Called /\ call.out.kind = "raise"

\* C1: whatever the underlying model call does (raise any exception, answer
\* with a malformed reply), each of the four backend operations returns a
\* text to its caller and lets no exception escape.
C1_AlwaysReturnsText ==
  Called => /\ ret.kind = "text"
            /\ ret.value \in Seq(STRING)

C1_Witness ==
  /\ Called
  /\ call.backend = "qwen2"
  /\ call.out.kind = "response"
  /\ call.out.status = 200
  /\ call.out.body = "notjson"
  /\ ret.kind = "text"

\* C2: on every backend, a model call that raises a connection failure
\* makes the operation return a string that carries an error indicator.
C2_ConnectionFailureMarked ==
  (Failed /\ call.out.exc = "ConnectionError")
    => (ret.kind = "text" /\ HasErrorIndicator(ret.value))

\* C3: in qwen2's generate_answer a network failure, a timeout, a non-200
\* status and a malformed reply (a 200 whose body is not JSON or has no
\* "response" member) each come back as a non-empty error string.
Qwen2BackendError(out) ==
  \/ out.kind = "raise"
  \/ out.kind = "response" /\ out.status # 200
  \/ out.kind = "response" /\ out.status = 200 /\ out.body = "notjson"
  \/ out.kind = "response" /\ out.status = 200 /\ out.body = "dict"
       /\ out.response = "absent"

C3_Qwen2ErrorsBecomeText ==
  (Called /\ call.backend = "qwen2" /\ Qwen2BackendError(call.out))
    => /\ ret.kind = "text"
       /\ ret.value # <<>>
       /\ HasErrorIndicator(ret.value)

\* C4: whatever the length of the history, the slice personalized_tutor
\* reads from it holds at most 5 (gemini) or 2 (qwen2) entries, and they are
\* the entries appended last, in the order they were appended.
C4_MemoryWindow ==
  [][(calls' # calls /\ locals'.backend \in {"gemini", "qwen2"}) =>
       LET w == locals'.memory_read
           h == IF locals'.backend = "gemini" THEN g_history ELSE q_history
           n == IF locals'.backend = "gemini" THEN 5 ELSE 2
       IN  /\ Len(w) <= n
           /\ Len(w) = Min(n, Len(h))
           /\ \A i \in 1..Len(w) : w[i] = h[Len(h) - Len(w) + i]]_vars

C4_Witness ==
  /\ locals.backend = "gemini"
  /\ Len(g_history) = 7
  /\ Len(locals.memory_read) = 5
  /\ locals.memory_read[1] # locals.memory_read[2]

\* C5: on each of the four backends every tutoring call appends its
\* query/response pair to the backend's conversation memory, so after n
\* calls the memory of the backend in use holds n entries.
MemoryOf(b) ==
  CASE b = "gemini" -> g_history
    [] b = "qwen2" -> q_history
    [] b = "phi3" -> phi3.conversation_history
    [] b = "llama" -> llama.conversation_history

C5_MemoryHoldsEveryCall ==
  script \in {"gemini", "qwen2", "phi3", "llama"} => Len(MemoryOf(script)) = calls

\* C6: conversation_history of gemini and of qwen2 is append-only: a
\* personalized_tutor call adds exactly one entry at the end, made of the
\* call's query and response, and leaves the earlier entries as they were.
AppendsOne(h, hNew, query, response) ==
  /\ Len(hNew) = Len(h) + 1
  /\ \A i \in 1..Len(h) : hNew[i] = h[i]
  /\ hNew[Len(hNew)] = <<"Q:">> \o query \o <<"\n", "A:">> \o response

C6_AppendOnly ==
  [][(calls' # calls /\ locals'.backend \in {"gemini", "qwen2"}) =>
       IF locals'.backend = "gemini"
       THEN AppendsOne(g_history, g_history', locals'.query, ret'.value)
              /\ q_history' = q_history
       ELSE AppendsOne(q_history, q_history', locals'.query, ret'.value)
              /\ g_history' = g_history]_vars

C6_Witness ==
  /\ script = "gemini"
  /\ Len(g_history) = 6
  /\ g_history[1] # g_history[6]

\* C10: for a non-empty corpus and any k >= 1 the context holds at most k
\* Q/A blocks, in the order of the labels the index returned (nearest first,
\* unfilled slots last), and each block pairs the question at a corpus
\* position with the correct-answer text at the same position.
CountToken(text, t) == Cardinality({i \in 1..Len(text) : text[i] = t})

C10_ContextBlocks ==
  locals.backend \in {"gemini", "qwen2"} =>
    LET I == locals.I
        n == Len(questions)
        Pos(i) == IF i < 0 THEN n + i + 1 ELSE i + 1
        D(i) == Distance(locals.query, questions[Pos(i)])
        expected == [j \in 1..Len(I) |->
                       <<"Q:">> \o questions[Pos(I[j])]
                         \o <<"\n", "A:">> \o correct_texts[Pos(I[j])]]
    IN  /\ n >= 1 /\ Len(correct_texts) = n
        /\ Len(I) = locals.top_k
        /\ \A j \in 1..Len(I) : I[j] \in -1..(n - 1)
        /\ \A j, m \in 1..Len(I) :
             j < m => /\ (I[j] >= 0 /\ I[m] >= 0) => D(I[j]) <= D(I[m])
                      /\ I[j] = -1 => I[m] = -1
        /\ CountToken(locals.context, "Q:") <= locals.top_k
        /\ locals.context = Join(<<"\n">>, expected)

C10_Witness ==
  /\ locals.backend = "gemini"
  /\ locals.top_k = 3
  /\ Len(questions) = 3
  /\ locals.I[1] = 2
  /\ CountToken(locals.context, "Q:") = 3

\* the backend a tag names is available
Available(m) ==
  CASE m = "phi3" -> phi3_tutor
    [] m = "llama" -> llama_tutor
    [] m = "gemini" -> gemini_tutor
    [] OTHER -> FALSE

\* a model_used value names the backend m
NamesModel(used, m) ==
  CASE m = "phi3" -> used = "phi3:mini"
    [] m = "llama" -> used = "llama3.1:8b"
    [] m = "gemini" -> used \in {"gemini", "gemini-1.5-flash-latest"}
    [] OTHER -> FALSE

AllMemory == <<g_history, q_history, phi3.conversation_history,
               llama.conversation_history>>

\* C7: once /switch-model has reported success for a backend M, the next
\* /chat that names M, or names no model, reports a model_used naming M;
\* and /switch-model leaves the stored conversation memory as it was.
C7_SwitchThenChat ==
  [][/\ (/\ req.op = "switch-model"
         /\ resp.status = "success"
         /\ req'.op = "chat"
         /\ \/ req'.model \in {Null, Absent}
            \/ LowerName(req'.model) = LowerName(req.model))
        => /\ "model_used" \in DOMAIN resp'
           /\ NamesModel(resp'.model_used, LowerName(req.model))
     /\ (calls' # calls /\ req'.op = "switch-model") => AllMemory' = AllMemory]_vars

\* C8: requests being handled one at a time, a /chat whose model member
\* names an available backend (phi3, llama or gemini, in any letter case)
\* is answered by that backend, whichever backend was active before.
C8_ChatAnsweredByNamed ==
  (/\ req.op = "chat"
   /\ req.model \notin {Null, Absent}
   /\ Available(LowerName(req.model)))
    => /\ "response" \in DOMAIN resp
       /\ call.backend = LowerName(req.model)

\* C9 as claimed: every handler that submits a query or switches the
\* backend returns either a body with response, model_used and status or a
\* body with error and status = "error".
QueryOps == {"chat", "chat-phi3", "chat-llama", "chat-gemini", "chat-qwen2"}
SuccessShape(body) ==
  /\ {"response", "model_used", "status"} \subseteq DOMAIN body
  /\ body.response \in Seq(STRING)
ErrorShape(body) ==
  /\ {"error", "status"} \subseteq DOMAIN body
  /\ body.status = "error"

C9_EveryHandlerShape ==
  req.op \in QueryOps \cup {"ask", "switch-model"}
    => SuccessShape(resp) \/ ErrorShape(resp)

\* C9 as amended: /chat and the four /chat-<model> handlers return a body
\* with response, model_used and status = "success", or a body with error
\* and status = "error"; /ask returns a body with answer alone or with
\* error alone; /switch-model returns a body with status ("success" or
\* "error") and message; in every case the handler returns a body.
C9_HandlerShapes ==
  /\ req.op \in QueryOps =>
       \/ SuccessShape(resp) /\ resp.status = "success"
       \/ ErrorShape(resp) /\ "response" \notin DOMAIN resp
  /\ req.op = "ask" =>
       \/ DOMAIN resp = {"answer"} /\ resp.answer \in Seq(STRING)
       \/ DOMAIN resp = {"error"}
  /\ req.op = "switch-model" =>
       /\ {"status", "message"} \subseteq DOMAIN resp
       /\ resp.status \in {"success", "error"}
       /\ "response" \notin DOMAIN resp /\ "error" \notin DOMAIN resp

C9_Witness ==
  /\ req.op = "chat"
  /\ ErrorShape(resp)
  /\ ~phi3_tutor /\ ~llama_tutor /\ ~gemini_tutor

\* C11: when top_k exceeds the number of loaded questions the context is cut
\* to the corpus: one Q/A block per corpus entry, no entry twice, and no
\* block for a slot the index filled with -1.
C11_TruncatedToCorpus ==
  (locals.backend \in {"gemini", "qwen2"} /\ locals.top_k > Len(questions)) =>
    LET n == Len(questions)
        r == Ranked(questions, locals.query, 0..(n - 1))
        blocks == [j \in 1..n |-> QABlock(questions[r[j] + 1],
                                          correct_texts[r[j] + 1])]
    IN  /\ CountToken(locals.context, "Q:") = n
        /\ \A i \in 1..n :
             Cardinality({j \in 1..Len(locals.context) :
                            /\ j + Len(questions[i]) <= Len(locals.context)
                            /\ locals.context[j] = "Q:"
                            /\ SubSeq(locals.context, j + 1, j + Len(questions[i]))
                                 = questions[i]}) = 1
        /\ locals.context = Join(<<"\n">>, blocks)

\* the tag sets of the two classifiers
TopicTags(topics) == {topics[i].topic : i \in 1..Len(topics)} \cup {"general"}
TopicsOf(b) == IF b = "phi3" THEN Phi3Topics ELSE LlamaTopics

\* the positions, in declaration order, of the topics a text has a keyword of
MatchingTopics(topics, text) ==
  {i \in 1..Len(topics) :
     \E k \in 1..Len(topics[i].keywords) :
       Contains(Lower(text), topics[i].keywords[k])}

\* C12: _extract_topic of the phi3 and llama tutors is total: every text,
\* the empty one included, gets exactly one tag of the fixed tag set, and
\* the tag is 'general' exactly when the text holds no keyword of any topic.
C12_TopicTotal ==
  (locals.backend \in {"phi3", "llama"} /\ locals.fn = "_extract_topic") =>
    /\ locals.result \in TopicTags(TopicsOf(locals.backend))
    /\ locals.result = "general"
         <=> MatchingTopics(TopicsOf(locals.backend), locals.query) = {}

C12_Witness ==
  /\ locals.backend = "phi3"
  /\ locals.fn = "_extract_topic"
  /\ locals.query = <<>>
  /\ locals.result = "general"

\* C13: a text with keywords of several topics gets the topic declared
\* first among them, keywords match as substrings whatever the letter case,
\* and classifying the same text again gives the same tag.
C13_FirstDeclaredWins ==
  /\ [](  (locals.backend \in {"phi3", "llama"} /\ locals.fn = "_extract_topic") =>
            LET topics == TopicsOf(locals.backend)
                m == MatchingTopics(topics, locals.query)
            IN  m # {} =>
                  locals.result = topics[CHOOSE i \in m : \A j \in m : i <= j].topic)
  /\ [][(/\ locals.backend \in {"phi3", "llama"}
         /\ locals'.backend = locals.backend
         /\ locals.fn = "_extract_topic" /\ locals'.fn = "_extract_topic"
         /\ locals'.query = locals.query)
          => locals'.result = locals.result]_vars

C13_Witness ==
  /\ locals.backend = "llama"
  /\ locals.fn = "_extract_topic"
  /\ locals.query = <<"Map", "OSPF">>
  /\ locals.result = "routing"

\* C14: the topic tag, the complexity tier and the analytics gathered from
\* earlier queries are bookkeeping only: the tutor of the process answers
\* every query, and the messages sent to the model and the text returned
\* by ask_question are those a tutor with no analytics at all would send
\* and return for the same query and the same backend answer.
FreshAsk(b, query, out) ==
  IF b = "phi3"
  THEN [input |-> SystemPrompt(Phi3Init) \o Phi3BuildEnhancedPrompt(query),
        ret |-> Phi3AskQuestion(Phi3Init, query, out, 1, 1).ret]
  ELSE [input |-> SystemPrompt(LlamaInit) \o LlamaBuildDetailedPrompt(query),
        ret |-> LlamaAskQuestion(LlamaInit, query, out, 1, 1).ret]

C14_AnalyticsNotRead ==
  [][(calls' # calls /\ script \in {"phi3", "llama"}) =>
       /\ call'.backend = script
       /\ \E query \in Queries :
            /\ call'.input = FreshAsk(script, query, call'.out).input
            /\ ret' = FreshAsk(script, query, call'.out).ret]_vars

C14_Witness ==
  /\ script = "llama"
  /\ DOMAIN llama.topic_performance = {"routing", "switching"}
  /\ llama.topic_performance["switching"].complexity_level = "intermediate"
  /\ llama.topic_performance["routing"].questions_asked = 2
  /\ call.out = OllamaOk(AnswerOSPF)
  /\ ret.kind = "text"

\* s holds a, then b, then c, then d, one after the other without overlap
IsInfixAt(s, a, i) ==
  /\ i + Len(a) <= Len(s)
  /\ \A j \in 1..Len(a) : s[i + j] = a[j]

InOrder(s, a, b, c, d) ==
  \E i, j, k, l \in 0..Len(s) :
    /\ IsInfixAt(s, a, i)
    /\ i + Len(a) <= j /\ IsInfixAt(s, b, j)
    /\ j + Len(b) <= k /\ IsInfixAt(s, c, k)
    /\ k + Len(c) <= l /\ IsInfixAt(s, d, l)

RoleInstructions(b) ==
  IF b = "gemini" THEN <<"You are an expert Cisco network engineer ...">>
  ELSE <<"You are a CCNA exam practice coach. ...">>

\* C15: the prompt personalized_tutor sends holds, in this order, the role
\* instructions, the retrieved Q/A context, the recent memory entries from
\* the oldest to the newest, and the literal query, on gemini and on qwen2.
C15_PromptOrder ==
  locals.backend \in {"gemini", "qwen2"} =>
    InOrder(locals.prompt, RoleInstructions(locals.backend), locals.context,
            Join(<<"\n">>, locals.memory_read), locals.query)

\* the query texts a prompt is compared with: other questions, the empty
\* text, and texts that differ from a question only at their ends
AltQueries ==
  SearchQueries \cup {<<>>, <<"Explain">>, <<"OSPF">>,
                      QueryOSPF \o <<"\n\n">>, <<" ">> \o QueryVLAN,
                      QueryOSPF \o <<"\n\n", "Question:">>}

\* the prompt each builder makes of a query, context and memory held fixed
BuiltPrompt(b, context, history_text, query) ==
  CASE b = "gemini" -> GeminiPrompt(context, history_text, query)
    [] b = "qwen2" -> Qwen2Prompt(context, query)
    [] b = "phi3" -> Phi3BuildEnhancedPrompt(query)
    [] b = "llama" -> LlamaBuildDetailedPrompt(query)

\* C16: context and memory held fixed, two different query texts give two
\* different prompts, the query standing in the prompt as it was given;
\* for the gemini, qwen2, phi3 and llama prompt builders.
C16_QueryChangesPrompt ==
  /\ locals.backend \in {"gemini", "qwen2"} =>
       /\ \E i \in 0..Len(locals.prompt) : IsInfixAt(locals.prompt, locals.query, i)
       /\ \A q2 \in AltQueries :
            q2 # locals.query =>
              BuiltPrompt(locals.backend, locals.context, locals.history_text, q2)
                # locals.prompt
  /\ (call.backend \in {"phi3", "llama"} /\ script = call.backend) =>
       \E q \in Queries :
         LET self == IF call.backend = "phi3" THEN phi3 ELSE llama
             user == SubSeq(call.input, Len(SystemPrompt(self)) + 1, Len(call.input))
         IN  /\ user = BuiltPrompt(call.backend, <<>>, <<>>, q)
             /\ \E i \in 0..Len(user) : IsInfixAt(user, q, i)
             /\ \A q2 \in AltQueries :
                  q2 # q => BuiltPrompt(call.backend, <<>>, <<>>, q2) # user

C16_Witness ==
  /\ locals.backend = "gemini"
  /\ locals.query = QueryOSPF
  /\ Len(locals.memory_read) = 2
  /\ GeminiPrompt(locals.context, locals.history_text, QueryVLAN) # locals.prompt

\* len() of a text in characters
RECURSIVE TextLen(_)
TextLen(s) == IF Len(s) = 0 THEN 0 ELSE CharLen(s[1]) + TextLen(Tail(s))

\* C17 as claimed: apart from the memory window nothing is cut, the whole
\* retrieved context stands in the prompt, on gemini and on qwen2.
C17_NothingTruncated ==
  locals.backend \in {"gemini", "qwen2"} =>
    \E i \in 0..Len(locals.prompt) : IsInfixAt(locals.prompt, locals.context, i)

\* C17 as amended: the gemini prompt holds the whole retrieved context,
\* whatever its length; the qwen2 prompt holds the first 400 characters of
\* the context, which is the whole context only when it is that short.
C17_ContextWholeOrCapped ==
  /\ locals.backend = "gemini" =>
       \E i \in 0..Len(locals.prompt) : IsInfixAt(locals.prompt, locals.context, i)
  /\ locals.backend = "qwen2" =>
       LET part == SubSeq(locals.prompt, 4,
                          Len(locals.prompt) - Len(locals.query) - 4)
           whole == IF Len(part) > 0 /\ part[Len(part)] = "<cut token>"
                    THEN SubSeq(part, 1, Len(part) - 1) ELSE part
           n == Len(whole)
       IN  /\ n <= Len(locals.context)
           /\ whole = SubSeq(locals.context, 1, n)
           /\ TextLen(whole) <= ContextCap
           /\ n < Len(locals.context) =>
                TextLen(SubSeq(locals.context, 1, n + 1)) > ContextCap
           /\ TextLen(locals.context) <= ContextCap => part = locals.context

C17_Witness ==
  /\ locals.backend = "qwen2"
  /\ TextLen(locals.context) > ContextCap
  /\ \E i \in 1..Len(locals.prompt) : locals.prompt[i] = "<cut token>"
  /\ ~ \E i \in 0..Len(locals.prompt) : IsInfixAt(locals.prompt, locals.context, i)

\* a record with the three fields the load needs
HasAllFields(r) == {"question", "choices", "correct_answer"} \subseteq DOMAIN r

\* the records the loop has gone through so far that have all three fields
KeptSoFar == SelectSeq(SubSeq(data, 1, boot.pos), HasAllFields)

\* the lines the start-up code prints
ExpectedLines ==
  {"Dataset loaded", "First Question:", "Correct Answer:", "Using device:"}

C19_ValidAnswerIndex ==
  \A i \in 1..boot.pos :
    HasAllFields(data[i]) =>
      /\ 0 <= data[i].correct_answer
      /\ data[i].correct_answer < Len(data[i].choices)

\* C20: with no usable question (an empty list, or every record skipped)
\* the start-up of the gemini and qwen2 modules ends in an error: it never
\* gets to build the index, and no query is served.
NoUsableQuestion == \A i \in 1..Len(data) : ~HasAllFields(data[i])

C20_EmptyCorpusFails ==
  /\ (NoUsableQuestion /\ boot.pos = Len(data) /\ boot.stage # "loading") =>
       /\ boot.stage = "failed"
       /\ boot.exc = "IndexError"
       /\ \A i \in 1..Len(boot.stdout) : boot.stdout[i][1] # "Using device:"
  /\ boot.stage \in {"loaded", "ready"} => Len(questions) >= 1
  /\ calls > 0 => (boot.stage = "ready" /\ Len(questions) >= 1)

C20_Witness ==
  /\ data = <<RecNoAnswer, RecNoQuestion>>
  /\ boot.stage = "failed"
  /\ boot.pos = 2
  /\ questions = <<>>

\* C24: in every state of the server current_model names the backend held
\* in current_tutor ('phi3' exactly when it is the phi3 tutor, 'llama'
\* exactly when it is the llama tutor), so the model_used of a /chat answer
\* names the backend that produced it.
C24_ModelNamesTutor ==
  /\ current_model = "phi3" <=> current_tutor = "phi3"
  /\ current_model = "llama" <=> current_tutor = "llama"
  /\ (req.op = "chat" /\ "model_used" \in DOMAIN resp) =>
       NamesModel(resp.model_used, call.backend)

\* C25: a /switch-model whose model name is unknown, or names a backend
\* that failed to initialise, answers status "error" and leaves
\* current_model and current_tutor as they were.
C25_FailedSwitchChangesNothing ==
  [][(/\ calls' # calls
      /\ req'.op = "switch-model"
      /\ \/ req'.model \notin {"phi3", "PHI3", "llama", "LLAMA", "gemini", "GEMINI"}
         \/ req'.model \in {"phi3", "PHI3"} /\ ~phi3_tutor
         \/ req'.model \in {"llama", "LLAMA"} /\ ~llama_tutor
         \/ req'.model \in {"gemini", "GEMINI"} /\ ~gemini_tutor)
       => /\ resp'.status = "error"
          /\ current_model' = current_model
          /\ current_tutor' = current_tutor]_vars

C25_Witness ==
  /\ req.op = "switch-model"
  /\ req.model = "llama"
  /\ ~llama_tutor
  /\ resp.status = "error"
  /\ current_tutor = "phi3"
  /\ current_model = "gemini"

\* C26: /chat-phi3, /chat-llama, /chat-gemini, /chat-qwen2, /ask, /,
\* /models and /health leave current_model and current_tutor as they were;
\* the selection changes only in /switch-model and /chat.
C26_OnlySwitchAndChatSelect ==
  [][(calls' # calls /\ req'.op \notin {"switch-model", "chat"})
       => /\ req'.op \in {"chat-phi3", "chat-llama", "chat-gemini", "chat-qwen2",
                          "ask", "root", "models", "health"}
          /\ current_model' = current_model
          /\ current_tutor' = current_tutor]_vars

C26_Witness ==
  /\ req.op = "chat-phi3"
  /\ call.backend = "phi3"
  /\ "response" \in DOMAIN resp
  /\ current_tutor = "llama"
  /\ current_model = "llama"

\* a text holds one of the terms, whatever the letter case
HoldsAny(terms, text) ==
  \E k \in 1..Len(terms) : Contains(Lower(text), terms[k])

\* C30: _assess_complexity of the llama tutor is total and prioritised:
\* 'advanced' when the query holds an advanced term (substring, any letter
\* case), else 'intermediate' when it holds a complexity indicator, else
\* 'basic'; a query with both is 'advanced'.
C30_ComplexityPrioritised ==
  (locals.backend = "llama" /\ locals.fn = "_assess_complexity") =>
    /\ locals.result \in {"basic", "intermediate", "advanced"}
    /\ locals.result = "advanced" <=> HoldsAny(AdvancedTerms, locals.query)
    /\ locals.result = "intermediate" <=>
         (~HoldsAny(AdvancedTerms, locals.query)
            /\ HoldsAny(ComplexIndicators, locals.query))

C30_Witness ==
  /\ locals.backend = "llama"
  /\ locals.fn = "_assess_complexity"
  /\ locals.query = <<"Configure", "Redundancy">>
  /\ locals.result = "advanced"

\* the tutor object of the process
Tutor == IF script = "phi3" THEN phi3 ELSE llama
Asked(self) == SumAsked(self.topic_performance, DOMAIN self.topic_performance)
AskedOf(self, t) ==
  IF t \in DOMAIN self.topic_performance
  THEN self.topic_performance[t].questions_asked ELSE 0
AllTopics == {LlamaTopics[i].topic : i \in 1..Len(LlamaTopics)} \cup {"general"}

\* C27: for a tutor used by one caller at a time, get_stats reports as
\* questions_answered the number of ask_question calls that returned a
\* model answer: it is 0 at the start, such a call adds one to the
\* questions_asked of exactly one topic, and a call whose backend raised
\* leaves all statistics as they were.
C27_QuestionsAnsweredCounts ==
  /\ [](calls = 0 => Asked(Tutor) = 0)
  /\ [][(now' # now /\ script \in {"phi3", "llama"}) =>
          IF call'.out.kind = "response" /\ call'.out.content = "str"
          THEN /\ Asked(Tutor') = Asked(Tutor) + 1
               /\ \E t \in AllTopics :
                    /\ AskedOf(Tutor', t) = AskedOf(Tutor, t) + 1
                    /\ \A u \in AllTopics \ {t} : AskedOf(Tutor', u) = AskedOf(Tutor, u)
          ELSE Tutor' = Tutor]_vars
  /\ [][(calls' # calls /\ now' = now /\ script \in {"phi3", "llama"}) =>
          /\ locals'.fn = "get_stats"
          /\ locals'.result.questions_answered = Asked(Tutor)
          /\ Tutor' = Tutor]_vars

C27_Witness ==
  /\ script = "phi3"
  /\ locals.backend = "phi3"
  /\ locals.fn = "get_stats"
  /\ locals.result.questions_answered = 2
  /\ calls = 4
  /\ call.out.kind = "raise"

\* C28: get_stats reports avg_response_time as total_response_time divided
\* by the number of questions answered (by 1 when there is none), on the
\* phi3 and on the llama tutor, whatever the topics of the questions.
C28_AverageOverQuestions ==
  [][(calls' # calls /\ now' = now /\ script \in {"phi3", "llama"}) =>
       locals'.result.avg_response_time
         = Format2f(Tutor.total_response_time, Max(1, Asked(Tutor)))]_vars

\* the llama tutor alone does divide by the questions answered
C28_LlamaAverage ==
  [][(calls' # calls /\ now' = now /\ script = "llama") =>
       locals'.result.avg_response_time
         = Format2f(Tutor.total_response_time, Max(1, Asked(Tutor)))]_vars

\* an entry of the memory that records a failed generation
ErrorEntry(e) == HasErrorIndicator(e)
Infix(s, a) == \E i \in 0..Len(s) : IsInfixAt(s, a, i)

\* C29: when the generation backend fails inside personalized_tutor, the
\* error string it returns is appended to the memory as the entry
\* "Q: <query>\nA: <error string>", the form an answer is stored in, and on
\* gemini the history block of every later prompt is made of the last five
\* entries, so the error entry is in the prompt while it is among them.
C29_ErrorsRemembered ==
  /\ [][(calls' # calls /\ script \in {"gemini", "qwen2"}
           /\ call'.out.kind = "raise") =>
          /\ ret'.kind = "text"
          /\ HasErrorIndicator(ret'.value)
          /\ MemoryOf(script)' =
               Append(MemoryOf(script), QABlock(locals'.query, ret'.value))]_vars
  /\ [][(calls' # calls /\ script = "gemini") =>
          /\ locals'.history_text = GeminiHistoryText(LastN(g_history, 5))
          /\ \A i \in 1..Len(g_history) :
               (ErrorEntry(g_history[i]) /\ i > Len(g_history) - 5) =>
                 /\ Infix(locals'.history_text, g_history[i])
                 /\ Infix(call'.input, g_history[i])]_vars

C29_Witness ==
  /\ script = "gemini"
  /\ Len(g_history) = 7
  /\ ErrorEntry(g_history[1])
  /\ ~Infix(call.input, g_history[1])
  /\ ErrorEntry(g_history[3])
  /\ Infix(call.input, g_history[3])
  /\ call.out.kind = "raise"

\* thread u has assigned current_tutor on behalf of its request
Returned(t) == threads[t].pc = "done" /\ threads[t].resp.status = "success"
Selected(u) ==
  /\ threads[u].pc \in {"set_model", "read_tutor", "asking", "name", "done"}
  /\ threads[u].target # "none"
UsedBackend(body) == IF body.model_used = "phi3:mini" THEN "phi3" ELSE "llama"

\* C21: two /chat requests in two threads that name different loaded local
\* backends can interleave on current_tutor and current_model so that one
\* is answered by the backend the other selected, or reports as model_used
\* a backend other than the one that answered it (the witness); a request
\* is answered by a backend it did not name only when another request has
\* made that backend current, and reports another backend than the one that
\* answered only when another request has assigned the globals.
C21_MismatchOnlyByInterleaving ==
  \A t \in Threads :
    Returned(t) =>
      /\ threads[t].tutor # threads[t].model =>
           \E u \in Threads \ {t} :
             Selected(u) /\ threads[u].target = threads[t].tutor
      /\ UsedBackend(threads[t].resp) # threads[t].tutor =>
           \E u \in Threads \ {t} : Selected(u)

C21_Witness ==
  \E t \in Threads, u \in Threads :
    /\ Returned(t)
    /\ threads[t].model = "llama"
    /\ threads[t].tutor = "phi3"
    /\ threads[t].resp.model_used = "llama3.1:8b"
    /\ threads[u].pc # "idle"
    /\ threads[u].model = "phi3"
    /\ threads[u].target = "phi3"

\* the calls that have returned a model answer, all or those of one topic
Quiet == \A t \in Threads : threads[t].pc \in {"idle", "done"}
AnsweredCalls == {t \in Threads : threads[t].pc = "done" /\ threads[t].answered}
AnsweredOn(topic) == {t \in AnsweredCalls : threads[t].topic = topic}
RECURSIVE SumTimes(_)
SumTimes(S) ==
  IF S = {} THEN 0
  ELSE LET t == CHOOSE x \in S : TRUE IN threads[t].dt + SumTimes(S \ {t})

\* C22: two ask_question calls running at once on one tutor with queries of
\* one topic can both return while questions_asked of the topic and
\* total_response_time have grown by one call's worth (the witness). Once
\* no call is in progress a topic's questions_asked is at least 1 and at
\* most the number of answered calls of the topic, total_response_time is
\* at most the sum of their response times, and a single answered call is
\* counted exactly.
C22_UpdatesCanOnlyBeLost ==
  (script \in {"phi3", "llama"} /\ Quiet) =>
    /\ \A topic \in AllTopics :
         /\ AnsweredOn(topic) = {} => AskedOf(SharedTutor, topic) = 0
         /\ AnsweredOn(topic) # {} =>
              /\ AskedOf(SharedTutor, topic) >= 1
              /\ AskedOf(SharedTutor, topic) <= Cardinality(AnsweredOn(topic))
    /\ SharedTutor.total_response_time <= SumTimes(AnsweredCalls)
    /\ Cardinality(AnsweredCalls) = 1 =>
         /\ Asked(SharedTutor) = 1
         /\ SharedTutor.total_response_time = SumTimes(AnsweredCalls)

C22_Witness ==
  /\ script = "phi3"
  /\ \A t \in Threads : threads[t].pc = "done" /\ threads[t].answered
  /\ \A t \in Threads : threads[t].topic = "routing" /\ threads[t].dt = MaxRespTime
  /\ phi3.topic_performance["routing"].questions_asked = 1
  /\ phi3.total_response_time = MaxRespTime

\* the calls that have returned, and the entry each of them made
Finished == {t \in Threads : threads[t].pc = "done"}
EntryOf(t) == QABlock(threads[t].query, threads[t].response_text)
OnePerCall ==
  /\ Len(SharedHistory) = Cardinality(Finished)
  /\ \A t \in Finished :
       /\ threads[t].slot \in 1..Len(SharedHistory)
       /\ SharedHistory[threads[t].slot] = EntryOf(t)
  /\ \A t, u \in Finished : t # u => threads[t].slot # threads[u].slot

\* C23 as stated: after N concurrent personalized_tutor calls the memory
\* holds N entries, one per call, in the order in which the backend calls
\* (generate_answer) completed.
C23_OrderedByBackendCompletion ==
  script \in {"gemini", "qwen2"} =>
    /\ OnePerCall
    /\ \A t, u \in Finished :
         threads[t].generated < threads[u].generated =>
           threads[t].slot < threads[u].slot

\* C23, amended: after N concurrent personalized_tutor calls the memory
\* holds N entries, one per call, none lost and none twice, in the order in
\* which the calls executed their append, which can differ from the order
\* in which the requests arrived.
C23_OrderedByAppend ==
  script \in {"gemini", "qwen2"} =>
    /\ OnePerCall
    /\ \A t, u \in Finished :
         threads[t].appended < threads[u].appended =>
           threads[t].slot < threads[u].slot

C23_Witness ==
  /\ script = "gemini"
  /\ Finished = Threads
  /\ Len(g_history) = MaxThreads
  /\ \E t, u \in Threads :
       /\ threads[t].arrived < threads[u].arrived
       /\ threads[t].slot > threads[u].slot
       /\ EntryOf(t) # EntryOf(u)

====
